---------------------------- MODULE Spec2Model ----------------------------
(***************************************************************************)
(* Storage core of minsql: page manager, slotted page, buffer pool and    *)
(* write-ahead log, modelled from src/storage.                             *)
(*                                                                         *)
(* Memory and files are byte strings.  A byte string is kept run-length   *)
(* encoded, a sequence of <<count, value>> runs with no empty run and no  *)
(* two neighbouring runs of the same value, so that a page of 8192 bytes  *)
(* or a log buffer of 65536 bytes keeps its real size and every offset    *)
(* computed by the code is the offset the code computes.                   *)
(***************************************************************************)
EXTENDS Integers, Sequences, FiniteSets, TLC

(***************************************************************************)
(* Program constants.                                                      *)
(***************************************************************************)
PAGE_SIZE == 8192
WAL_BUFFER_SIZE == 65536
SizeofPageHeader == 24
SizeofPage == 8200
SizeofLinePointer == 6
SizeofWALEntry == 32
OffLower == 8
OffUpper == 10
OffDirty == 24
OffPinCount == 26
OffWalTxn == 8
OffWalTime == 16
OffWalType == 24
OffWalLength == 26
OffWalData == 28
U16 == 65536
STORAGE_OK == 0
STORAGE_ERROR == 1
STORAGE_IO_ERROR == 3
WAL_INSERT == 1
WAL_COMMIT == 4
WAL_UPDATE == 2
WAL_DELETE == 3
WAL_ABORT == 5
WAL_CHECKPOINT == 6
NULL == 0
\* the result of a call the process did not survive
Killed == -2

(***************************************************************************)
(* Run-length encoded byte strings.                                        *)
(***************************************************************************)
RFill(n, v) == IF n <= 0 THEN <<>> ELSE << <<n, v>> >>

RCat(a, b) ==
    IF a = <<>> THEN b
    ELSE IF b = <<>> THEN a
    ELSE IF a[Len(a)][2] = b[1][2]
         THEN SubSeq(a, 1, Len(a) - 1)
                \o << <<a[Len(a)][1] + b[1][1], b[1][2]>> >>
                \o Tail(b)
         ELSE a \o b

RECURSIVE RLenFrom(_, _)
RLenFrom(s, i) == IF i > Len(s) THEN 0 ELSE s[i][1] + RLenFrom(s, i + 1)
RLen(s) == RLenFrom(s, 1)

\* the run holding byte p (0-based) of s, from run i on, with the bytes before
\* that run: <<index, bytes before>>; the index is Len(s) + 1 past the end
RECURSIVE RFind(_, _, _, _)
RFind(s, p, i, before) ==
    IF i > Len(s) THEN <<i, before>>
    ELSE IF p < before + s[i][1] THEN <<i, before>>
    ELSE RFind(s, p, i + 1, before + s[i][1])

RTake(s, n) ==
    IF n <= 0 \/ s = <<>> THEN <<>>
    ELSE LET at == RFind(s, n - 1, 1, 0) IN
         IF at[1] > Len(s) THEN s
         ELSE SubSeq(s, 1, at[1] - 1) \o << <<n - at[2], s[at[1]][2]>> >>

RDrop(s, n) ==
    IF s = <<>> THEN <<>>
    ELSE IF n <= 0 THEN s
    ELSE LET at == RFind(s, n, 1, 0) IN
         IF at[1] > Len(s) THEN <<>>
         ELSE << <<s[at[1]][1] - (n - at[2]), s[at[1]][2]>> >>
              \o SubSeq(s, at[1] + 1, Len(s))

RSub(s, from, n) == RTake(RDrop(s, from), n)

RByte(s, p) ==
    LET at == RFind(s, p, 1, 0) IN
    IF at[1] > Len(s) THEN 0 ELSE s[at[1]][2]

RECURSIVE RFromBytes(_)
RFromBytes(bs) ==
    IF bs = <<>> THEN <<>> ELSE RCat(<< <<1, bs[1]>> >>, RFromBytes(Tail(bs)))

\* memcpy(dst + off, src, RLen(src)) clipped to the object dst
RWrite(dst, off, src) ==
    LET room == RLen(dst) - off
        part == RTake(src, room)
    IN  IF room <= 0 THEN dst
        ELSE RCat(RCat(RTake(dst, off), part), RDrop(dst, off + RLen(part)))

\* little-endian integers
LE16(v) == RFromBytes(<<v % 256, (v \div 256) % 256>>)
LE32(v) == RFromBytes(<<v % 256, (v \div 256) % 256,
                        (v \div 65536) % 256, (v \div 16777216) % 256>>)
LE64(v) == RCat(LE32(v), RFill(4, 0))
U16At(s, p) == RByte(s, p) + 256 * RByte(s, p + 1)
U32At(s, p) == U16At(s, p) + 65536 * U16At(s, p + 2)
SetU16(s, p, v) == RWrite(s, p, LE16(v))


(***************************************************************************)
(* Bounds of the model.                                                    *)
(***************************************************************************)
Capacity == 2
MaxPages == 1
PoolPages == 3
MaxSlots == 2
MaxAccess == 4
MaxGets == 2
MaxPageOps == 3
MaxPoolOps == 1
MaxBoots == 1

Addr == 1..(Capacity + MaxPages)
Frames == 0..(Capacity - 1)
PageIds == 0..PoolPages
\* tuples handed to add_tuple: <<size, byte value>>
Tuples == { <<0, 0>>, <<5, 104>>, <<8162, 119>>, <<65535, 7>> }
PoolTuples == { <<0, 0>>, <<5, 104>> }

(***************************************************************************)
(* struct Page: 24 bytes of header, dirty at byte 24, pin_count at bytes   *)
(* 26..27, data from byte 28; sizeof(Page) is 8200.  The line pointers of  *)
(* the slotted page start at byte sizeof(PageHeader) of the same object.   *)
(***************************************************************************)
PageIdOf(pg) == U32At(pg, 0)
LowerOf(pg) == U16At(pg, OffLower)
UpperOf(pg) == U16At(pg, OffUpper)
DirtyOf(pg) == RByte(pg, OffDirty) # 0
PinCountOf(pg) == U16At(pg, OffPinCount)
SetDirty(pg, b) == RWrite(pg, OffDirty, RFill(1, IF b THEN 1 ELSE 0))
SetPinCount(pg, n) == SetU16(pg, OffPinCount, n % U16)

\* LinePointer {offset, length, flags} of a slot, read from the page bytes
LpAt(slot) == SizeofPageHeader + slot * SizeofLinePointer
LpOffset(pg, slot) == U16At(pg, LpAt(slot))
LpLength(pg, slot) == U16At(pg, LpAt(slot) + 2)
LpFlags(pg, slot) == U16At(pg, LpAt(slot) + 4)

\* (lower - sizeof(PageHeader)) / sizeof(LinePointer) is taken in size_t and cut
\* to uint16_t: below 24 the difference wraps, and (2^64 - d) / 6 has the low
\* 16 bits 43690 + floor((4 - d) / 6)
num_slots(pg) ==
    IF LowerOf(pg) >= SizeofPageHeader
    THEN ((LowerOf(pg) - SizeofPageHeader) \div SizeofLinePointer) % U16
    ELSE (43690 + ((4 - (SizeofPageHeader - LowerOf(pg))) \div SizeofLinePointer)) % U16

page_get_free_space(pg) == (UpperOf(pg) - LowerOf(pg)) % U16

\* the zeroed page page_manager_alloc builds before it writes it
NewPage(id) ==
    LET z  == RFill(SizeofPage, 0)
        p1 == RWrite(z, 0, LE32(id))
        p2 == SetU16(p1, OffLower, SizeofPageHeader)
        p3 == SetU16(p2, OffUpper, PAGE_SIZE)
    IN  SetPinCount(SetDirty(p3, TRUE), 1)

add_required(size) == (size + SizeofLinePointer) % U16

page_add_tuple_fits(pg, size) == ~(page_get_free_space(pg) < add_required(size))

\* the stores of page_add_tuple in program order, when the space check passed
page_add_tuple(pg, size, val) ==
    LET lp   == LowerOf(pg)
        off  == (UpperOf(pg) - size) % U16
        p1   == SetU16(pg, lp, off)
        p2   == SetU16(p1, lp + 2, size)
        p3   == SetU16(p2, lp + 4, 0)
        dst  == U16At(p3, lp)
        p4   == RWrite(p3, dst, RFill(size, val))
        p5   == SetU16(p4, OffLower, (LowerOf(p4) + SizeofLinePointer) % U16)
        p6   == SetU16(p5, OffUpper, (UpperOf(p5) - size) % U16)
    IN  SetDirty(p6, TRUE)

\* whether the memcpy of page_add_tuple stays inside the Page object
add_in_object(pg, size) == ((UpperOf(pg) - size) % U16) + size <= SizeofPage

NoTuple == -1
\* page_get_tuple: the offset of the returned pointer in the page, or NoTuple
page_get_tuple(pg, slot) ==
    IF slot >= num_slots(pg) THEN NoTuple
    ELSE IF LpFlags(pg, slot) % 2 = 1 THEN NoTuple
    ELSE LpOffset(pg, slot)

page_delete_tuple_ok(pg, slot) == ~(slot >= num_slots(pg))

page_delete_tuple(pg, slot) ==
    LET f == LpFlags(pg, slot)
        p1 == SetU16(pg, LpAt(slot) + 4, IF f % 2 = 1 THEN f ELSE f + 1)
    IN  SetDirty(p1, TRUE)

(***************************************************************************)
(* Page manager: pages.dat is a byte string, page page_id at byte          *)
(* page_id * PAGE_SIZE, the product taken in 32 bits as the code does.     *)
(***************************************************************************)
PageOffset(page_id) == (page_id % 524288) * PAGE_SIZE

\* pwrite-like effect of lseek(off) + write(bytes) on a regular file
FileWrite(f, off, bytes) ==
    LET padded == IF RLen(f) < off THEN RCat(f, RFill(off - RLen(f), 0)) ELSE f
    IN  RCat(RCat(RTake(padded, off), bytes), RDrop(padded, off + RLen(bytes)))

WriteOutcomes == {"ok", "ioerr", "syncerr"}
ReadOutcomes == {"ok", "ioerr"}

\* page_manager_write: [res, file, page]
page_manager_write(f, pg, outcome) ==
    LET offset == PageOffset(PageIdOf(pg))
        image  == RTake(pg, PAGE_SIZE)
    IN  CASE outcome = "ioerr" ->
               [res |-> STORAGE_IO_ERROR, file |-> f, page |-> pg]
          [] outcome = "syncerr" ->
               [res |-> STORAGE_IO_ERROR, file |-> FileWrite(f, offset, image),
                page |-> pg]
          [] OTHER ->
               [res |-> STORAGE_OK, file |-> FileWrite(f, offset, image),
                page |-> SetDirty(pg, FALSE)]

\* page_manager_read: the bytes of the new Page object, or <<>> for NULL
page_manager_read(f, npages, page_id, outcome) ==
    LET offset == PageOffset(page_id)
        got    == RSub(f, offset, PAGE_SIZE)
    IN  IF page_id >= npages THEN <<>>
        ELSE IF outcome = "ioerr" THEN <<>>
        ELSE IF RLen(got) # PAGE_SIZE THEN <<>>
        ELSE SetPinCount(SetDirty(RCat(got, RFill(SizeofPage - PAGE_SIZE, 0)),
                                  FALSE), 1)

(***************************************************************************)
(* Buffer pool.                                                            *)
(***************************************************************************)
NoEntry == [page |-> NULL, page_id |-> 0, last_access |-> 0, valid |-> FALSE]

UINT64_MAX == -1   \* stands for 2^64 - 1 in find_victim: above every counter

\* a lookup that never finds the page
find_slot_blind(es, page_id) == -1

RECURSIVE find_slot_from(_, _, _)
find_slot_from(es, page_id, i) ==
    IF i >= Capacity THEN -1
    ELSE IF es[i].valid /\ es[i].page_id = page_id THEN i
    ELSE find_slot_from(es, page_id, i + 1)

buffer_pool_find_slot(es, page_id) == find_slot_from(es, page_id, 0)

RECURSIVE find_victim_from(_, _, _, _, _)
find_victim_from(es, hp, i, min_access, victim_idx) ==
    IF i >= Capacity THEN victim_idx
    ELSE IF ~es[i].valid THEN i
    ELSE IF PinCountOf(hp[es[i].page]) = 0
            /\ (min_access = UINT64_MAX \/ es[i].last_access < min_access)
         THEN find_victim_from(es, hp, i + 1, es[i].last_access, i)
         ELSE find_victim_from(es, hp, i + 1, min_access, victim_idx)

\* a victim search that reads every pin_count as 0
find_victim_unpinned(es, hp) ==
    find_victim_from(es, [a \in DOMAIN hp |->
                            IF hp[a] = <<>> THEN <<>> ELSE SetPinCount(hp[a], 0)],
                     0, UINT64_MAX, -1)

\* a victim search that takes the first frame free or not pinned
find_victim_first(es, hp) ==
    LET free == { i \in 0..(Capacity - 1) : ~es[i].valid }
        ok   == IF free # {} THEN free
                ELSE { i \in 0..(Capacity - 1) : PinCountOf(hp[es[i].page]) = 0 }
    IN  IF ok = {} THEN -1 ELSE CHOOSE i \in ok : \A j \in ok : i <= j

buffer_pool_find_victim(es, hp) == find_victim_from(es, hp, 0, UINT64_MAX, -1)

(***************************************************************************)
(* State.                                                                  *)
(*   file            pages.dat                                             *)
(*   num_pages       PageManager.num_pages                                 *)
(*   heap            the Page objects of the process, by address; <<>> is  *)
(*                   an address malloc has not handed out (or free took)   *)
(*   entries, num_entries, access_counter      BufferPool                  *)
(*   made, onDisk, bal, boots, nops, last      history of the run, read by *)
(*                   the properties and by the bounds of the model only    *)
(*   wal_file        wal.log; synced is the length of it an fsync covered  *)
(*   buffer, buffer_pos, next_lsn, lock        struct WAL                  *)
(*   pc, lsn         where each thread stands in storage_wal_append, and   *)
(*                   its local lsn                                         *)
(*   appended, acked, nappends, nflushes, wboots   history of the log: the *)
(*                   records appended since wal_create, the records a      *)
(*                   flush returning STORAGE_OK covered, and counters      *)
(*   rlog, rres      a log given to storage_wal_replay and what replay     *)
(*                   made of it                                            *)
(*   btree           BTreeIndex; binserted is the order and number of the  *)
(*                   inserts made                                          *)
(*   buckets         HashIndex::buckets; hput is what the callers did      *)
(*   bits            BloomFilter; bkeys is the set of keys inserted        *)
(*   arena_offset    Arena::offset; regions are the calls of arena_alloc   *)
(*                   since the last reset                                  *)
(*   call            where storage_checkpoint or storage_shutdown stands   *)
(*   flushing        where a buffer_pool_flush_page taken step by step     *)
(*                   stands                                                *)
(***************************************************************************)
VARIABLES file, num_pages, heap, entries, num_entries, access_counter,
          made, onDisk, bal, boots, nops, last,
          wal_file, synced, buffer, buffer_pos, next_lsn, lock, pc, lsn,
          appended, acked, nappends, nflushes, wboots,
          rlog, rres, btree, binserted, buckets, hput, bits, bkeys,
          arena_offset, regions, call, flushing, seeks

pvars == <<file, num_pages, heap, entries, num_entries, access_counter,
           made, onDisk, bal, boots, nops, last>>
wvars == <<wal_file, synced, buffer, buffer_pos, next_lsn, lock, pc, lsn,
           appended, acked, nappends, nflushes, wboots>>
rvars == <<rlog, rres>>
tvars == <<btree, binserted>>
hvars == <<buckets, hput>>
bvars == <<bits, bkeys>>
avars == <<arena_offset, regions>>
cvars == <<call, flushing>>
svars == <<seeks>>
xvars == <<rvars, tvars, hvars, bvars, avars, cvars, svars>>
vars == <<pvars, wvars, xvars>>

\* history of a page: whether it descends from a successful alloc, and the
\* add_tuple calls that succeeded on it, in order, with the slots deleted
NoHist == [known |-> FALSE, slots |-> <<>>]
NewHist == [known |-> TRUE, slots |-> <<>>]

\* the last operation: its name, argument and result; for a get that evicted,
\* the victim frame, whether its page was still held (more gets than unpins),
\* dirty, and saved (not dirty, or written with STORAGE_OK); rio is the
\* outcome of the read a get made
NoLast == [op |-> "init", arg |-> 0, ret |-> 0, victim |-> -1,
           vheld |-> FALSE, vdirty |-> FALSE, vsaved |-> FALSE, rio |-> "none"]

EmptyPool == [i \in Frames |-> NoEntry]

\* malloc(sizeof(Page)): the lowest address not in use, NULL when there is none
Malloc(hp) ==
    IF \E a \in Addr : hp[a] = <<>>
    THEN CHOOSE a \in Addr : hp[a] = <<>> /\ \A b \in Addr : hp[b] = <<>> => a <= b
    ELSE NULL

Allocated == {a \in Addr : heap[a] # <<>>}
FrameOf(a) == {i \in Frames : entries[i].valid /\ entries[i].page = a}
PageImage(f, page_id) == RSub(f, PageOffset(page_id), PAGE_SIZE)

\* storage_init on a directory holding pages.dat = f: page_manager_create,
\* buffer_pool_create
Opened(f) ==
    /\ num_pages = RLen(f) \div PAGE_SIZE
    /\ heap = [a \in Addr |-> <<>>]
    /\ entries = EmptyPool
    /\ num_entries = 0
    /\ access_counter = 0
    /\ made = [a \in Addr |-> NoHist]
    /\ bal = [p \in PageIds |-> 0]

\* an empty data directory
PInit ==
    /\ file = <<>>
    /\ Opened(<<>>)
    /\ onDisk = [p \in PageIds |-> NoHist]
    /\ boots = 0
    /\ nops = 0
    /\ last = NoLast

\* page_manager_alloc: num_pages is advanced before the file is extended
PmAlloc(outcome) ==
    LET a  == Malloc(heap)
        id == num_pages
        pg == NewPage(id)
    IN  /\ a # NULL
        /\ num_pages' = num_pages + 1
        /\ IF outcome = "ok"
           THEN /\ file' = FileWrite(file, PageOffset(id), RTake(pg, PAGE_SIZE))
                /\ heap' = [heap EXCEPT ![a] = pg]
                /\ made' = [made EXCEPT ![a] = NewHist]
                /\ onDisk' = [onDisk EXCEPT ![id] = NewHist]
                /\ last' = [NoLast EXCEPT !.op = "alloc", !.arg = id, !.ret = a]
           ELSE /\ UNCHANGED <<file, heap, made, onDisk>>
                /\ last' = [NoLast EXCEPT !.op = "alloc", !.arg = id, !.ret = NULL]
        /\ UNCHANGED <<entries, num_entries, access_counter, bal, boots, nops>>
    /\ UNCHANGED <<wvars, xvars>>

\* the process dies and the directory is opened again
Restart ==
    /\ boots' = boots + 1
    /\ num_pages' = RLen(file) \div PAGE_SIZE
    /\ heap' = [a \in Addr |-> <<>>]
    /\ entries' = EmptyPool
    /\ num_entries' = 0
    /\ access_counter' = 0
    /\ made' = [a \in Addr |-> NoHist]
    /\ bal' = [p \in PageIds |-> 0]
    /\ UNCHANGED <<file, onDisk>>

Reopen ==
    /\ Restart
    /\ UNCHANGED nops
    /\ last' = [NoLast EXCEPT !.op = "open"]
    /\ UNCHANGED <<wvars, xvars>>

\* page_add_tuple on a page the caller holds.  When the memcpy runs past the
\* end of the Page object the behaviour is undefined: either the process is
\* killed (ub = "segv"), or it goes on with the bytes inside the object
\* written (ub = "silent"; what lies behind the object is not modelled)
AddTuple(a, t, ub) ==
    LET pg == heap[a] IN
    /\ a \in Allocated
    /\ nops' = nops + 1
    /\ IF ~page_add_tuple_fits(pg, t[1])
       THEN /\ ub = "silent"
            /\ last' = [NoLast EXCEPT !.op = "add", !.ret = STORAGE_ERROR]
            /\ UNCHANGED <<heap, made, file, num_pages, entries, num_entries,
                           access_counter, onDisk, bal, boots>>
       ELSE IF ub = "segv"
       THEN /\ ~add_in_object(pg, t[1])
            /\ Restart
            /\ last' = [NoLast EXCEPT !.op = "segv"]
       ELSE /\ heap' = [heap EXCEPT ![a] = page_add_tuple(pg, t[1], t[2])]
            /\ made' = [made EXCEPT ![a].slots =
                          Append(@, [size |-> t[1], val |-> t[2], live |-> TRUE])]
            /\ last' = [NoLast EXCEPT !.op = "add", !.ret = STORAGE_OK]
            /\ UNCHANGED <<file, num_pages, entries, num_entries, access_counter,
                           onDisk, bal, boots>>
    /\ UNCHANGED <<wvars, xvars>>

\* page_delete_tuple
DeleteTuple(a, slot) ==
    LET pg == heap[a] IN
    /\ a \in Allocated
    /\ nops' = nops + 1
    /\ IF ~page_delete_tuple_ok(pg, slot)
       THEN /\ last' = [NoLast EXCEPT !.op = "delete", !.ret = STORAGE_ERROR]
            /\ UNCHANGED <<heap, made>>
       ELSE /\ heap' = [heap EXCEPT ![a] = page_delete_tuple(pg, slot)]
            /\ made' = [made EXCEPT ![a].slots =
                          IF slot < Len(@)
                          THEN [@ EXCEPT ![slot + 1].live = FALSE] ELSE @]
            /\ last' = [NoLast EXCEPT !.op = "delete", !.ret = STORAGE_OK]
    /\ UNCHANGED <<file, num_pages, entries, num_entries, access_counter,
                   onDisk, bal, boots>>
    /\ UNCHANGED <<wvars, xvars>>

\* storage_put_page
storage_put_page(a) ==
    /\ a \in Allocated
    /\ heap' = [heap EXCEPT ![a] = SetDirty(@, TRUE)]
    /\ last' = [NoLast EXCEPT !.op = "put"]
    /\ nops' = nops + 1
    /\ UNCHANGED <<file, num_pages, entries, num_entries, access_counter,
                   made, onDisk, bal, boots>>

\* storage_put_page with no flush of the page under way
PutPage(a) ==
    /\ storage_put_page(a)
    /\ UNCHANGED <<wvars, xvars>>

\* buffer_pool_get_page, the whole of it under the pool mutex
GetPage(page_id, wout, rout) ==
    LET slot == buffer_pool_find_slot(entries, page_id) IN
    /\ UNCHANGED <<wvars, xvars>>
    /\ IF slot >= 0
       THEN \* hit
            LET a == entries[slot].page IN
            /\ wout = "ok" /\ rout = "ok"
            /\ entries' = [entries EXCEPT ![slot].last_access = access_counter]
            /\ access_counter' = access_counter + 1
            /\ heap' = [heap EXCEPT ![a] = SetPinCount(@, PinCountOf(@) + 1)]
            /\ bal' = [bal EXCEPT ![page_id] = @ + 1]
            /\ last' = [NoLast EXCEPT !.op = "get", !.arg = page_id, !.ret = a]
            /\ UNCHANGED <<file, num_pages, num_entries, made, onDisk, boots, nops>>
       ELSE \* miss
            LET full   == num_entries >= Capacity
                victim == buffer_pool_find_victim(entries, heap)
            IN
            IF full /\ victim < 0
            THEN /\ wout = "ok" /\ rout = "ok"
                 /\ last' = [NoLast EXCEPT !.op = "get", !.arg = page_id,
                                           !.ret = NULL]
                 /\ UNCHANGED <<file, num_pages, heap, entries, num_entries,
                                access_counter, made, onDisk, bal, boots, nops>>
            ELSE
            LET va   == IF full THEN entries[victim].page ELSE NULL
                vpg  == IF full THEN heap[va] ELSE <<>>
                wb   == full /\ DirtyOf(vpg)
                wr   == IF wb THEN page_manager_write(file, vpg, wout)
                        ELSE [res |-> STORAGE_OK, file |-> file, page |-> vpg]
                hp1  == IF full THEN [heap EXCEPT ![va] = <<>>] ELSE heap
                es1  == IF full THEN [entries EXCEPT ![victim].valid = FALSE]
                        ELSE entries
                n1   == IF full THEN num_entries - 1 ELSE num_entries
                od1  == IF wb /\ wout # "ioerr"
                        THEN [onDisk EXCEPT ![PageIdOf(vpg)] = made[va]]
                        ELSE onDisk
                mk1  == IF full THEN [made EXCEPT ![va] = NoHist] ELSE made
                bytes == page_manager_read(wr.file, num_pages, page_id, rout)
                a    == Malloc(hp1)
                free_slot == buffer_pool_find_victim(es1, hp1)
                l1   == [NoLast EXCEPT !.op = "get", !.arg = page_id,
                           !.victim = IF full THEN victim ELSE -1,
                           !.vheld = full /\ bal[entries[victim].page_id] > 0,
                           !.vdirty = wb,
                           !.vsaved = full /\ wr.res = STORAGE_OK,
                           !.rio = rout]
            IN
            /\ wb \/ wout = "ok"
            /\ page_id < num_pages \/ rout = "ok"
            /\ file' = wr.file
            /\ UNCHANGED <<num_pages, boots, nops>>
            /\ IF bytes = <<>> \/ a = NULL \/ free_slot < 0
               THEN /\ heap' = hp1
                    /\ entries' = es1
                    /\ num_entries' = n1
                    /\ made' = mk1
                    /\ onDisk' = od1
                    /\ bal' = bal
                    /\ access_counter' = access_counter
                    /\ last' = [l1 EXCEPT !.ret = NULL]
               ELSE /\ heap' = [hp1 EXCEPT ![a] = SetPinCount(bytes, 1)]
                    /\ entries' = [es1 EXCEPT ![free_slot] =
                                     [page |-> a, page_id |-> page_id,
                                      last_access |-> access_counter,
                                      valid |-> TRUE]]
                    /\ num_entries' = n1 + 1
                    /\ access_counter' = access_counter + 1
                    /\ made' = [mk1 EXCEPT ![a] = od1[page_id]]
                    /\ onDisk' = od1
                    /\ bal' = [bal EXCEPT ![page_id] = @ + 1]
                    /\ last' = [l1 EXCEPT !.ret = a]

\* buffer_pool_unpin_page
UnpinPage(a) ==
    LET fs == FrameOf(a) IN
    /\ a \in Allocated
    /\ IF fs # {} /\ PinCountOf(heap[a]) > 0
       THEN heap' = [heap EXCEPT ![a] = SetPinCount(@, PinCountOf(@) - 1)]
       ELSE heap' = heap
    /\ bal' = [p \in PageIds |->
                 IF \E i \in fs : entries[i].page_id = p THEN bal[p] - 1 ELSE bal[p]]
    /\ last' = [NoLast EXCEPT !.op = "unpin"]
    /\ UNCHANGED <<file, num_pages, entries, num_entries, access_counter,
                   made, onDisk, boots, nops>>
    /\ UNCHANGED <<wvars, xvars>>

\* buffer_pool_flush_page
FlushPage(a, wout) ==
    LET wr == page_manager_write(file, heap[a], wout) IN
    /\ a \in Allocated
    /\ file' = wr.file
    /\ heap' = [heap EXCEPT ![a] = SetDirty(wr.page, FALSE)]
    /\ onDisk' = IF wout # "ioerr"
                 THEN [onDisk EXCEPT ![PageIdOf(heap[a])] = made[a]] ELSE onDisk
    /\ last' = [NoLast EXCEPT !.op = "flush_page", !.ret = wr.res]
    /\ nops' = nops + 1
    /\ UNCHANGED <<num_pages, entries, num_entries, access_counter, made, bal, boots>>
    /\ UNCHANGED <<wvars, xvars>>

\* the loop of buffer_pool_flush_all from frame i: [res, file, heap, onDisk]
RECURSIVE flush_all_from(_, _, _, _, _)
flush_all_from(i, f, hp, od, wouts) ==
    IF i >= Capacity THEN [res |-> STORAGE_OK, file |-> f, heap |-> hp, onDisk |-> od]
    ELSE IF entries[i].valid /\ DirtyOf(hp[entries[i].page])
    THEN LET a  == entries[i].page
             wr == page_manager_write(f, hp[a], wouts[i])
             od1 == IF wouts[i] # "ioerr"
                    THEN [od EXCEPT ![PageIdOf(hp[a])] = made[a]] ELSE od
         IN  IF wr.res # STORAGE_OK
             THEN [res |-> wr.res, file |-> wr.file, heap |-> hp, onDisk |-> od1]
             ELSE flush_all_from(i + 1, wr.file, [hp EXCEPT ![a] = wr.page], od1, wouts)
    ELSE flush_all_from(i + 1, f, hp, od, wouts)

\* buffer_pool_flush_all
buffer_pool_flush_all(wouts) ==
    LET r == flush_all_from(0, file, heap, onDisk, wouts) IN
    /\ \A i \in Frames :
          ~(entries[i].valid /\ DirtyOf(heap[entries[i].page])) => wouts[i] = "ok"
    /\ file' = r.file
    /\ heap' = r.heap
    /\ onDisk' = r.onDisk
    /\ last' = [NoLast EXCEPT !.op = "flush_all", !.ret = r.res]
    /\ nops' = nops + 1
    /\ UNCHANGED <<num_pages, entries, num_entries, access_counter, made, bal, boots>>

\* storage_flush: buffer_pool_flush_all with the log left alone
FlushAll(wouts) ==
    /\ buffer_pool_flush_all(wouts)
    /\ UNCHANGED <<wvars, xvars>>

(***************************************************************************)
(* Write-ahead log: wal.log is a byte string written with O_APPEND, the    *)
(* buffer a byte string of WAL_BUFFER_SIZE bytes.                          *)
(***************************************************************************)
MaxAppends == 3
MaxFlushes == 2
MaxWalBoots == 1
NumThreads == 2
Threads == 1..NumThreads
NoThread == 0

\* entries handed to append: transaction_id 1 and logical_time 0 as every
\* caller in entry.c sets them, payload of length bytes of value val
Entries == { [type |-> WAL_INSERT, length |-> 0,     val |-> 0],
             [type |-> WAL_COMMIT, length |-> 2,     val |-> 98],
             [type |-> WAL_INSERT, length |-> 40000, val |-> 97] }
\* byte counts a short write(2) may return
Shorts == {33}
\* what malloc leaves in a new buffer
Junk == {85}

\* a 64-bit field read from bytes, as its four 16-bit quarters from the
\* highest down, and the same for a number below 2^31
U64At(s, p) == <<U16At(s, p + 6), U16At(s, p + 4), U16At(s, p + 2), U16At(s, p)>>
U64Of(v) == <<0, 0, v \div U16, v % U16>>

\* the first sizeof(WALEntry) bytes of the caller's entry: the header and,
\* behind the length field, the first bytes of the payload
EntryHeader(e) ==
    RCat(RCat(RCat(LE64(0), RCat(LE32(IF "txn" \in DOMAIN e THEN e.txn ELSE 1),
                                  RFill(4, 0))),
              RCat(LE64(0), RCat(LE16(e.type), LE16(e.length)))),
         RTake(RCat(RFill(e.length, e.val), RFill(4, 0)),
               SizeofWALEntry - OffWalData))

wal_entry_size(e) == SizeofWALEntry + e.length

\* the three stores of storage_wal_append at buffer + pos
wal_store(buf, pos, l, e) ==
    LET b1 == RWrite(buf, pos, EntryHeader(e))
        b2 == RWrite(b1, pos, LE64(l))
    IN  RWrite(b2, pos + OffWalData, RFill(e.length, e.val))

\* what write(2) and fsync(2) do in one flush: w is WriteError, WriteAll or
\* the byte count of a short write; s is whether fsync succeeds
WriteError == -1
WriteAll == 0
FlushOutcomes == { [w |-> WriteError, s |-> TRUE], [w |-> WriteAll, s |-> TRUE],
                   [w |-> WriteAll, s |-> FALSE] }
                 \cup { [w |-> k, s |-> TRUE] : k \in Shorts }

\* the outcomes a flush of pos buffered bytes can meet
CanMeet(pos, out) ==
    IF pos = 0 THEN out = [w |-> WriteAll, s |-> TRUE]
    ELSE /\ out.w \in Shorts => out.w < pos
         /\ out.w = WriteError => out.s

\* wal_flush_internal: [res, file, synced, pos]
wal_flush_internal(f, sy, buf, pos, out) ==
    IF pos = 0 THEN [res |-> STORAGE_OK, file |-> f, synced |-> sy, pos |-> pos]
    ELSE IF out.w = WriteError
    THEN [res |-> STORAGE_IO_ERROR, file |-> f, synced |-> sy, pos |-> pos]
    ELSE LET written == IF out.w = WriteAll THEN pos ELSE out.w
             f1 == RCat(f, RTake(buf, written))
         IN  IF ~out.s
             THEN [res |-> STORAGE_IO_ERROR, file |-> f1, synced |-> sy,
                   pos |-> pos]
             ELSE [res |-> STORAGE_OK, file |-> f1, synced |-> RLen(f1),
                   pos |-> 0]

\* the loop of storage_wal_replay from offset: the records it visits.  With
\* fewer than sizeof(WALEntry) bytes left the length is read past the end of
\* replay_buffer, and whatever it is the loop breaks
RECURSIVE replay_from(_, _, _)
replay_from(f, file_size, offset) ==
    IF offset >= file_size THEN <<>>
    ELSE IF offset + SizeofWALEntry > file_size THEN <<>>
    ELSE LET length     == U16At(f, offset + OffWalLength)
             entry_size == SizeofWALEntry + length
         IN  IF offset + entry_size > file_size THEN <<>>
             ELSE << [off |-> offset, lsn |-> U64At(f, offset),
                      type |-> U16At(f, offset + OffWalType),
                      length |-> length,
                      val |-> RByte(f, offset + OffWalData)] >>
                  \o replay_from(f, file_size, offset + entry_size)

storage_wal_replay(f) == replay_from(f, RLen(f), 0)

\* whether the loop reads entry->length (line 138) at bytes past the
\* file_size bytes of replay_buffer
RECURSIVE replay_overread_from(_, _, _)
replay_overread_from(f, file_size, offset) ==
    IF offset >= file_size THEN FALSE
    ELSE IF offset + OffWalLength + 2 > file_size THEN TRUE
    ELSE LET entry_size == SizeofWALEntry + U16At(f, offset + OffWalLength)
         IN  IF offset + entry_size > file_size THEN FALSE
             ELSE replay_overread_from(f, file_size, offset + entry_size)

replay_overread(f) == replay_overread_from(f, RLen(f), 0)

\* a mutex that excludes nobody
LockBroken(holder) == TRUE

\* pthread_mutex_lock(&wal->lock) can return
LockFree(holder) == holder = NoThread

\* wal_create on a directory holding wal.log = f, malloc leaving j
WalOpened(f, j) ==
    /\ buffer = RFill(WAL_BUFFER_SIZE, j)
    /\ buffer_pos = 0
    /\ next_lsn = RLen(f)
    /\ lock = NoThread
    /\ pc = [t \in Threads |-> "idle"]
    /\ lsn = [t \in Threads |-> 0]
    /\ appended = <<>>

\* an empty data directory, malloc leaving j in the buffer
WInitWith(j) ==
    /\ wal_file = <<>>
    /\ synced = 0
    /\ WalOpened(<<>>, j)
    /\ acked = {}
    /\ nappends = 0
    /\ nflushes = 0
    /\ wboots = 0

WInit == \E j \in Junk : WInitWith(j)

\* the records of h with those in the buffer marked as gone from it
Unbuffered(h) == [i \in DOMAIN h |-> [h[i] EXCEPT !.inbuf = FALSE]]

\* storage_wal_append, lines 81-83: take the mutex, read next_lsn
storage_wal_append_lock(t) ==
    /\ pc[t] = "idle"
    /\ LockFree(lock)
    /\ lock' = t
    /\ pc' = [pc EXCEPT ![t] = "append"]
    /\ lsn' = [lsn EXCEPT ![t] = next_lsn]
    /\ UNCHANGED <<wal_file, synced, buffer, buffer_pos, next_lsn, appended,
                   acked, nappends, nflushes, wboots>>

\* a thread of the log workload enters storage_wal_append
WalAppendLock(t) ==
    /\ storage_wal_append_lock(t)
    /\ UNCHANGED <<pvars, xvars>>

\* storage_wal_append, lines 85-104, holding the mutex
storage_wal_append_body(t, e, out) ==
    LET entry_size == wal_entry_size(e)
        full == buffer_pos + entry_size > WAL_BUFFER_SIZE
        fl   == IF full
                THEN wal_flush_internal(wal_file, synced, buffer, buffer_pos, out)
                ELSE [res |-> STORAGE_OK, file |-> wal_file, synced |-> synced,
                      pos |-> buffer_pos]
    IN
    /\ pc[t] = "append"
    /\ CanMeet(IF full THEN buffer_pos ELSE 0, out)
    /\ wal_file' = fl.file
    /\ synced' = fl.synced
    /\ lock' = NoThread
    /\ pc' = [pc EXCEPT ![t] = "idle"]
    /\ lsn' = [lsn EXCEPT ![t] = 0]
    /\ nappends' = nappends + 1
    /\ IF fl.res # STORAGE_OK
       THEN UNCHANGED <<buffer, buffer_pos, next_lsn, appended>>
       ELSE /\ buffer' = wal_store(buffer, fl.pos, lsn[t], e)
            /\ buffer_pos' = fl.pos + entry_size
            /\ next_lsn' = next_lsn + entry_size
            /\ appended' = Append(IF fl.pos = 0 THEN Unbuffered(appended)
                                  ELSE appended,
                                  [lsn |-> lsn[t], pos |-> fl.pos, type |-> e.type,
                                   length |-> e.length, val |-> e.val,
                                   inbuf |-> TRUE])
    /\ UNCHANGED <<acked, nflushes, wboots>>

\* a thread of the log workload completes storage_wal_append
WalAppendBody(t, e, out) ==
    /\ storage_wal_append_body(t, e, out)
    /\ UNCHANGED <<pvars, xvars>>

\* storage_wal_flush, the whole of it under the mutex
storage_wal_flush(t, out) ==
    LET fl == wal_flush_internal(wal_file, synced, buffer, buffer_pos, out) IN
    /\ pc[t] = "idle"
    /\ LockFree(lock)
    /\ CanMeet(buffer_pos, out)
    /\ wal_file' = fl.file
    /\ synced' = fl.synced
    /\ buffer_pos' = fl.pos
    /\ appended' = IF fl.pos = 0 THEN Unbuffered(appended) ELSE appended
    /\ acked' = IF fl.res = STORAGE_OK
                THEN acked \cup { [lsn |-> appended[i].lsn,
                                   type |-> appended[i].type,
                                   length |-> appended[i].length,
                                   val |-> appended[i].val] : i \in DOMAIN appended }
                ELSE acked
    /\ nflushes' = nflushes + 1
    /\ UNCHANGED <<buffer, next_lsn, lock, pc, lsn, nappends, wboots>>

\* a thread of the log workload calls storage_wal_flush
WalFlush(t, out) ==
    /\ storage_wal_flush(t, out)
    /\ UNCHANGED <<pvars, xvars>>

\* storage_wal_replay: reads the file, changes nothing
WalReplay ==
    /\ Len(storage_wal_replay(wal_file)) >= 0
    /\ UNCHANGED <<wvars, xvars>>
    /\ UNCHANGED <<pvars, xvars>>

\* wal_destroy with no thread inside the log, then wal_create on the same
\* directory
WalReopen(out, j) ==
    LET fl == wal_flush_internal(wal_file, synced, buffer, buffer_pos, out) IN
    /\ \A t \in Threads : pc[t] = "idle"
    /\ CanMeet(buffer_pos, out)
    /\ wal_file' = fl.file
    /\ synced' = fl.synced
    /\ buffer' = RFill(WAL_BUFFER_SIZE, j)
    /\ buffer_pos' = 0
    /\ next_lsn' = RLen(fl.file)
    /\ lock' = NoThread
    /\ appended' = <<>>
    /\ wboots' = wboots + 1
    /\ UNCHANGED <<pc, lsn, acked, nappends, nflushes>>
    /\ UNCHANGED <<pvars, xvars>>

\* the machine goes down, losing the buffer and, when keep is FALSE, the
\* bytes of wal.log no fsync has covered; then wal_create
WalCrash(keep, j) ==
    LET f1 == IF keep THEN wal_file ELSE RTake(wal_file, synced) IN
    /\ keep \/ synced < RLen(wal_file)
    /\ wal_file' = f1
    /\ synced' = RLen(f1)
    /\ buffer' = RFill(WAL_BUFFER_SIZE, j)
    /\ buffer_pos' = 0
    /\ next_lsn' = RLen(f1)
    /\ lock' = NoThread
    /\ pc' = [t \in Threads |-> "idle"]
    /\ lsn' = [t \in Threads |-> 0]
    /\ appended' = <<>>
    /\ wboots' = wboots + 1
    /\ UNCHANGED <<acked, nappends, nflushes>>
    /\ UNCHANGED <<pvars, xvars>>

WalNext ==
    \/ \E t \in Threads : nappends < MaxAppends /\ WalAppendLock(t)
    \/ \E t \in Threads, e \in Entries, out \in FlushOutcomes :
          WalAppendBody(t, e, out)
    \/ \E t \in Threads, out \in FlushOutcomes :
          nflushes < MaxFlushes /\ WalFlush(t, out)
    \/ WalReplay
    \/ \E out \in FlushOutcomes, j \in Junk :
          wboots < MaxWalBoots /\ WalReopen(out, j)
    \/ \E keep \in BOOLEAN, j \in Junk :
          wboots < MaxWalBoots /\ WalCrash(keep, j)

(***************************************************************************)
(* Replay of a given log: wal.log is put together from records as append   *)
(* and flush leave them, with the last one cut short, and                  *)
(* storage_wal_replay runs on it.                                          *)
(***************************************************************************)
MaxLogRecords == 2
\* the records of the given logs; type 9 is none of WALEntryType
LogEntries == { [type |-> WAL_INSERT, length |-> 0, val |-> 0],
                [type |-> WAL_COMMIT, length |-> 2, val |-> 98],
                [type |-> 9,          length |-> 0, val |-> 0] }
\* how many bytes of the record at the tail are in the file; 0 is no tail
Cuts == {0, 1, 12, 27, 28, 31, 33}

\* the bytes append leaves in the buffer for a record with LSN l
RecordImage(l, e) ==
    wal_store(RFill(wal_entry_size(e), CHOOSE j \in Junk : TRUE), 0, l, e)

\* the records es written one behind the other from offset at
RECURSIVE LogFrom(_, _, _)
LogFrom(es, i, at) ==
    IF i > Len(es) THEN <<>>
    ELSE RCat(RecordImage(at, es[i]),
              LogFrom(es, i + 1, at + wal_entry_size(es[i])))

\* the file for an input [es, tail, cut]
LogBytes(in) ==
    LET body == LogFrom(in.es, 1, 0) IN
    RCat(body, RTake(RecordImage(RLen(body), in.tail), in.cut))

LogInputs ==
    { in \in [es : UNION { [1..n -> LogEntries] : n \in 0..MaxLogRecords },
              tail : LogEntries,
              cut : Cuts] : in.cut < wal_entry_size(in.tail) }

NoReplay == [done |-> FALSE, ret |-> 0, visited |-> <<>>]

\* no log given
RIdle == rlog = [es |-> <<>>, tail |-> CHOOSE e \in LogEntries : TRUE, cut |-> 0]
         /\ rres = NoReplay

\* storage_wal_replay on the file of rlog.  io is whether lseek, malloc and
\* read succeed.  A read of entry->length past the end of replay_buffer is
\* undefined: the process is killed (ub = "segv") or goes on with whatever
\* it read, and then breaks out of the loop (ub = "silent")
Replay(io, ub) ==
    LET f == LogBytes(rlog) IN
    /\ ~rres.done
    /\ ub = "segv" => io = "ok" /\ replay_overread(f)
    /\ rres' = IF RLen(f) = 0
               THEN [done |-> TRUE, ret |-> STORAGE_OK, visited |-> <<>>]
               ELSE IF io # "ok"
               THEN [done |-> TRUE, ret |-> STORAGE_IO_ERROR, visited |-> <<>>]
               ELSE IF ub = "segv"
               THEN [done |-> TRUE, ret |-> Killed, visited |-> <<>>]
               ELSE [done |-> TRUE, ret |-> STORAGE_OK,
                     visited |-> storage_wal_replay(f)]
    /\ UNCHANGED <<rlog, pvars, wvars, tvars, hvars, bvars, avars, cvars, svars>>


\* a given log, not yet replayed
RInit == rlog \in LogInputs /\ rres = NoReplay

ReplayNext ==
    \E io \in {"ok", "ioerr"}, ub \in {"silent", "segv"} : Replay(io, ub)

\* no index, no filter
TIdle == btree = <<>> /\ binserted = [order |-> "none", n |-> 0]
HIdle == buckets = <<>> /\ hput = [n |-> 0]
BIdle == bits = [num_bits |-> 0] /\ bkeys = {}
AIdle == arena_offset = <<0, 0, 0, 0>> /\ regions = <<>>

\* the call of storage_checkpoint or storage_shutdown in progress: where it
\* stands, what it returned, and of the frames buffer_pool_flush_all found
\* dirty the pages of all of them (dirty), of the one whose write returned an
\* error (failed) and of those the loop never came to (skipped)
NoCall == [op |-> "none", pc |-> "idle", ret |-> 0, n |-> 0,
           dirty |-> {}, failed |-> {}, skipped |-> {}]
\* the call of buffer_pool_flush_page in progress: where it stands, its page,
\* and whether storage_put_page ran on that page after the bytes were written
NoFlushing == [pc |-> "idle", page |-> NULL, put |-> FALSE, ret |-> 0]
CIdle == call = NoCall /\ flushing = NoFlushing
\* the lseek calls of the page manager on a file too large to keep as a byte
\* string: the number of pages page_manager_create found, and for every
\* lseek made the operation, the page_id and the offset passed
NoSeeks == [num_pages |-> 0, at |-> {}]
SIdle == seeks = NoSeeks

(***************************************************************************)
(* B-tree index.  A node is [is_leaf, keys, values, children] with keys    *)
(* the first num_keys entries of its array, values those of a leaf and     *)
(* children the first num_keys + 1 pointers of an internal node; nodes are *)
(* named by the order of their allocation.  Keys are byte strings.         *)
(***************************************************************************)
BTREE_ORDER == 128
MaxInserts == 200
KeySpace == 211

\* the first difference of n bytes from i on: memcmp
RECURSIVE memcmp(_, _, _, _)
memcmp(k1, k2, i, n) ==
    IF i > n THEN 0
    ELSE IF k1[i] # k2[i] THEN (IF k1[i] < k2[i] THEN -1 ELSE 1)
    ELSE memcmp(k1, k2, i + 1, n)

compare_keys(k1, k2) ==
    LET len1 == Len(k1)
        len2 == Len(k2)
        min_len == IF len1 < len2 THEN len1 ELSE len2
        cmp == memcmp(k1, k2, 1, min_len)
    IN  IF cmp # 0 THEN cmp
        ELSE IF len1 < len2 THEN -1
        ELSE IF len1 > len2 THEN 1
        ELSE 0

NewNode(leaf) == [is_leaf |-> leaf, keys |-> <<>>, values |-> <<>>, children |-> <<>>]
InsertAt(q, i, x) == SubSeq(q, 1, i - 1) \o <<x>> \o SubSeq(q, i, Len(q))

\* split_child(parent, index), index counted from 0 as in the source
split_child(nodes, parent, index) ==
    LET full_child == nodes[parent].children[index + 1]
        fc  == nodes[full_child]
        new_child == Len(nodes) + 1
        mid == BTREE_ORDER \div 2
        nk  == BTREE_ORDER - mid - 1
        nc  == [is_leaf  |-> fc.is_leaf,
                keys     |-> SubSeq(fc.keys, mid + 2, mid + 1 + nk),
                values   |-> IF fc.is_leaf
                             THEN SubSeq(fc.values, mid + 2, mid + 1 + nk) ELSE <<>>,
                children |-> IF fc.is_leaf THEN <<>>
                             ELSE SubSeq(fc.children, mid + 2, mid + 2 + nk)]
        fc1 == [is_leaf  |-> fc.is_leaf,
                keys     |-> SubSeq(fc.keys, 1, mid),
                values   |-> IF fc.is_leaf THEN SubSeq(fc.values, 1, mid) ELSE <<>>,
                children |-> IF fc.is_leaf THEN <<>>
                             ELSE SubSeq(fc.children, 1, mid + 1)]
        p1  == [nodes[parent] EXCEPT
                  !.children = InsertAt(@, index + 2, new_child),
                  !.keys = InsertAt(@, index + 1, fc.keys[mid + 1])]
    IN  [Append(nodes, nc) EXCEPT ![full_child] = fc1, ![parent] = p1]

\* the loops of insert_non_full: from i down to the last key not above key;
\* the result is i + 1 of the source
RECURSIVE scan_down(_, _, _)
scan_down(keys, key, i) ==
    IF i >= 1 /\ compare_keys(key, keys[i]) < 0 THEN scan_down(keys, key, i - 1)
    ELSE i

RECURSIVE insert_non_full(_, _, _, _)
insert_non_full(nodes, node, key, value) ==
    LET n == nodes[node]
        i == scan_down(n.keys, key, Len(n.keys))
    IN  IF n.is_leaf
        THEN [nodes EXCEPT ![node].keys = InsertAt(@, i + 1, key),
                           ![node].values = InsertAt(@, i + 1, value)]
        ELSE IF Len(nodes[n.children[i + 1]].keys) = BTREE_ORDER
        THEN LET n1 == split_child(nodes, node, i)
                 i1 == IF compare_keys(key, n1[node].keys[i + 1]) > 0
                       THEN i + 1 ELSE i
             IN  insert_non_full(n1, n1[node].children[i1 + 1], key, value)
        ELSE insert_non_full(nodes, n.children[i + 1], key, value)

\* storage_create_btree: the root is an empty leaf
EmptyTree == [root |-> 1, nodes |-> <<NewNode(TRUE)>>]

storage_btree_insert(index, key, value) ==
    IF Len(index.nodes[index.root].keys) = BTREE_ORDER
    THEN LET new_root == Len(index.nodes) + 1
             n0 == Append(index.nodes,
                          [NewNode(FALSE) EXCEPT !.children = <<index.root>>])
             n1 == split_child(n0, new_root, 0)
         IN  [root |-> new_root, nodes |-> insert_non_full(n1, new_root, key, value)]
    ELSE [index EXCEPT !.nodes = insert_non_full(@, index.root, key, value)]

\* the first loop of storage_btree_search: the number of keys below key
RECURSIVE scan_up(_, _, _)
scan_up(keys, key, i) ==
    IF i < Len(keys) /\ compare_keys(key, keys[i + 1]) > 0
    THEN scan_up(keys, key, i + 1)
    ELSE i

NotFound == [found |-> FALSE, value |-> 0]

RECURSIVE search_from(_, _, _)
search_from(nodes, node, key) ==
    LET n == nodes[node]
        i == scan_up(n.keys, key, 0)
    IN  IF i < Len(n.keys) /\ compare_keys(key, n.keys[i + 1]) = 0
        THEN IF n.is_leaf THEN [found |-> TRUE, value |-> n.values[i + 1]]
             ELSE search_from(nodes, n.children[i + 2], key)
        ELSE IF n.is_leaf THEN NotFound
             ELSE search_from(nodes, n.children[i + 1], key)

storage_btree_search(index, key) == search_from(index.nodes, index.root, key)

\* the key of number k as the caller's bytes, and the value stored with it
KeyBytes(k) == <<k \div 256, k % 256>>
ValueOf(k) == 1000 + k

\* the orders in which the callers insert: the n-th key of each
Orders == {"up", "down", "mixed"}
KeyAt(order, n) ==
    CASE order = "up"   -> n
      [] order = "down" -> KeySpace - n
      [] OTHER          -> (n * 37) % KeySpace

TInit == btree = EmptyTree /\ binserted \in [order : Orders, n : {0}]

BtreeInsert ==
    LET k == KeyAt(binserted.order, binserted.n + 1) IN
    /\ binserted.n < MaxInserts
    /\ btree' = storage_btree_insert(btree, KeyBytes(k), ValueOf(k))
    /\ binserted' = [binserted EXCEPT !.n = @ + 1]
    /\ UNCHANGED <<pvars, wvars, rvars, hvars, bvars, avars, cvars, svars>>

\* storage_btree_search and storage_btree_delete change nothing
BtreeSearch ==
    /\ storage_btree_search(btree, KeyBytes(KeyAt(binserted.order, 1))).value >= 0
    /\ UNCHANGED vars

BtreeNext == BtreeInsert \/ BtreeSearch

BtreeInit == PInit /\ WInit /\ RIdle /\ TInit /\ HIdle /\ BIdle /\ AIdle /\ CIdle /\ SIdle

BtreeSpec == BtreeInit /\ [][BtreeNext]_vars

(***************************************************************************)
(* Hash index: buckets is the array of chains, a chain a sequence of       *)
(* <<key, value>> pairs in the order of their push_back.                   *)
(***************************************************************************)
HashBuckets == 2
MaxHashOps == 5
\* keys of up to two bytes: h * 31 + byte stays far below 2^64 for them, so
\* the arithmetic of size_t never wraps
HashKeys == { <<>>, <<1>>, <<3>>, <<1, 0>> }
HashValues == {1, 2}
Absent == -1

\* HashIndex::hash
RECURSIVE hash_from(_, _, _)
hash_from(h, bytes, i) ==
    IF i > Len(bytes) THEN h ELSE hash_from(h * 31 + bytes[i], bytes, i + 1)

hash(key, num_buckets) == hash_from(0, key, 1) % num_buckets

\* the position of the first entry of the chain with this key, 0 for none
RECURSIVE first_match(_, _, _)
first_match(chain, key, i) ==
    IF i > Len(chain) THEN 0
    ELSE IF chain[i][1] = key THEN i
    ELSE first_match(chain, key, i + 1)

\* an insert that never looks for the key
hash_insert_blind(bs, key, value) ==
    [bs EXCEPT ![hash(key, Len(bs)) + 1] = Append(@, <<key, value>>)]

storage_hash_insert(bs, key, value) ==
    LET bucket_idx == hash(key, Len(bs)) + 1
        at == first_match(bs[bucket_idx], key, 1)
    IN  IF at > 0 THEN [bs EXCEPT ![bucket_idx][at] = <<key, value>>]
        ELSE [bs EXCEPT ![bucket_idx] = Append(@, <<key, value>>)]

storage_hash_search(bs, key) ==
    LET chain == bs[hash(key, Len(bs)) + 1]
        at == first_match(chain, key, 1)
    IN  IF at > 0 THEN [found |-> TRUE, value |-> chain[at][2]] ELSE NotFound

\* storage_hash_delete: [res, buckets]
storage_hash_delete(bs, key) ==
    LET bucket_idx == hash(key, Len(bs)) + 1
        chain == bs[bucket_idx]
        at == first_match(chain, key, 1)
    IN  IF at > 0
        THEN [res |-> STORAGE_OK,
              buckets |-> [bs EXCEPT ![bucket_idx] =
                             SubSeq(chain, 1, at - 1) \o SubSeq(chain, at + 1, Len(chain))]]
        ELSE [res |-> STORAGE_ERROR, buckets |-> bs]

\* storage_create_hash; hput is what the callers have done: for each key the
\* value of its last insert (Absent after a delete or with no insert), the
\* keys inserted again with another value, the number of calls and the
\* result of the last delete
HInit ==
    /\ buckets = [i \in 1..HashBuckets |-> <<>>]
    /\ hput = [val |-> [k \in HashKeys |-> Absent], over |-> {}, n |-> 0,
               res |-> STORAGE_OK]

HashInsert(k, v) ==
    /\ buckets' = storage_hash_insert(buckets, k, v)
    /\ hput' = [hput EXCEPT !.val[k] = v, !.n = @ + 1,
                  !.over = IF hput.val[k] \notin {Absent, v} THEN @ \cup {k} ELSE @]
    /\ UNCHANGED <<pvars, wvars, rvars, tvars, bvars, avars, cvars, svars>>

HashDelete(k) ==
    LET d == storage_hash_delete(buckets, k) IN
    /\ buckets' = d.buckets
    /\ hput' = [hput EXCEPT !.val[k] = Absent, !.n = @ + 1, !.res = d.res]
    /\ UNCHANGED <<pvars, wvars, rvars, tvars, bvars, avars, cvars, svars>>

HashNext ==
    \/ \E k \in HashKeys, v \in HashValues : hput.n < MaxHashOps /\ HashInsert(k, v)
    \/ \E k \in HashKeys : hput.n < MaxHashOps /\ HashDelete(k)

HashInit == PInit /\ WInit /\ RIdle /\ TIdle /\ HInit /\ BIdle /\ AIdle /\ CIdle /\ SIdle

HashSpec == HashInit /\ [][HashNext]_vars

(***************************************************************************)
(* Bloom filter: [bits, num_bits, num_hashes] with bits the byte vector.   *)
(***************************************************************************)
BloomBits == 11
BloomHashes == 2
\* keys of up to two bytes, for which h * 31 + byte does not wrap
BloomKeys == { <<b>> : b \in 0..5 } \cup { <<>>, <<1, 0>> }

\* BloomFilter::BloomFilter
NewFilter(n_bits, n_hashes) ==
    [bits |-> [i \in 1..((n_bits + 7) \div 8) |-> 0],
     num_bits |-> n_bits, num_hashes |-> n_hashes]

\* BloomFilter::hash
bloom_hash(filter, key, seed) == hash_from(seed, key, 1) % filter.num_bits

\* 1 << bit_offset
RECURSIVE Shl1(_)
Shl1(bit_offset) == IF bit_offset = 0 THEN 1 ELSE 2 * Shl1(bit_offset - 1)

\* a store that assigns the mask instead of or-ing it in
set_bit_assign(filter, bit_idx) ==
    [filter EXCEPT !.bits[bit_idx \div 8 + 1] = Shl1(bit_idx % 8)]

\* BloomFilter::set_bit: bits[byte_idx] |= (1 << bit_offset)
set_bit(filter, bit_idx) ==
    LET byte_idx == bit_idx \div 8
        bit_offset == bit_idx % 8
        old == filter.bits[byte_idx + 1]
    IN  IF (old \div Shl1(bit_offset)) % 2 = 1 THEN filter
        ELSE [filter EXCEPT !.bits[byte_idx + 1] = old + Shl1(bit_offset)]

\* BloomFilter::get_bit
get_bit(filter, bit_idx) ==
    LET byte_idx == bit_idx \div 8
        bit_offset == bit_idx % 8
    IN  (filter.bits[byte_idx + 1] \div Shl1(bit_offset)) % 2 # 0

\* storage_bloom_insert: the loop from i on
RECURSIVE bloom_insert_from(_, _, _)
bloom_insert_from(filter, key, i) ==
    IF i >= filter.num_hashes THEN filter
    ELSE bloom_insert_from(set_bit(filter, bloom_hash(filter, key, i)), key, i + 1)

storage_bloom_insert(filter, key) == bloom_insert_from(filter, key, 0)

\* storage_bloom_might_contain: the loop from i on
RECURSIVE might_contain_from(_, _, _)
might_contain_from(filter, key, i) ==
    IF i >= filter.num_hashes THEN TRUE
    ELSE IF ~get_bit(filter, bloom_hash(filter, key, i)) THEN FALSE
    ELSE might_contain_from(filter, key, i + 1)

storage_bloom_might_contain(filter, key) == might_contain_from(filter, key, 0)

\* storage_create_bloom; bkeys is the set of keys inserted
BInit == bits = NewFilter(BloomBits, BloomHashes) /\ bkeys = {}

BloomInsert(k) ==
    /\ bits' = storage_bloom_insert(bits, k)
    /\ bkeys' = bkeys \cup {k}
    /\ UNCHANGED <<pvars, wvars, rvars, tvars, hvars, avars, cvars, svars>>

BloomNext == \E k \in BloomKeys : BloomInsert(k)

BloomInit == PInit /\ WInit /\ RIdle /\ TIdle /\ HIdle /\ BInit /\ AIdle /\ CIdle /\ SIdle

BloomSpec == BloomInit /\ [][BloomNext]_vars

(***************************************************************************)
(* Arena.  A size_t is four 16-bit quarters, highest first, as U64Of makes *)
(* them; pointers are offsets from base.                                   *)
(***************************************************************************)
ARENA_CAPACITY == 16777216
MaxAllocs == 3
SIZE_MAX == <<65535, 65535, 65535, 65535>>

\* a + b in size_t, and whether the sum left the 64 bits
Sum64(a, b) ==
    LET s4 == a[4] + b[4]
        s3 == a[3] + b[3] + s4 \div U16
        s2 == a[2] + b[2] + s3 \div U16
        s1 == a[1] + b[1] + s2 \div U16
    IN  [sum |-> <<s1 % U16, s2 % U16, s3 % U16, s4 % U16>>,
         carry |-> s1 \div U16 > 0]
Add64(a, b) == Sum64(a, b).sum

\* a & ~7
AndNot7(a) == [a EXCEPT ![4] = @ - (@ % 8)]

\* a <= b
RECURSIVE le_from(_, _, _)
le_from(a, b, i) ==
    IF i > 4 THEN TRUE
    ELSE IF a[i] # b[i] THEN a[i] < b[i]
    ELSE le_from(a, b, i + 1)
Le64(a, b) == le_from(a, b, 1)

\* the sizes the callers ask for
ArenaSizes == { U64Of(1), U64Of(8), U64Of(13), U64Of(ARENA_CAPACITY),
                U64Of(ARENA_CAPACITY - 8), SIZE_MAX,
                [SIZE_MAX EXCEPT ![4] = 65528] }

\* arena_alloc: [null, at, offset], at the pointer returned, offset the new
\* arena->offset
arena_alloc(offset, capacity, size) ==
    LET aligned_size == AndNot7(Add64(size, U64Of(7))) IN
    IF ~Le64(Add64(offset, aligned_size), capacity)
    THEN [null |-> TRUE, at |-> U64Of(0), offset |-> offset]
    ELSE [null |-> FALSE, at |-> offset, offset |-> Add64(offset, aligned_size)]

\* arena_create(0) in storage_init; regions are the calls of arena_alloc
\* since the last reset: the offset before, the size asked for, the result
AInit == arena_offset = U64Of(0) /\ regions = <<>>

ArenaAlloc(size) ==
    LET r == arena_alloc(arena_offset, U64Of(ARENA_CAPACITY), size) IN
    /\ arena_offset' = r.offset
    /\ regions' = Append(regions, [before |-> arena_offset, size |-> size,
                                   null |-> r.null, at |-> r.at])
    /\ UNCHANGED <<pvars, wvars, rvars, tvars, hvars, bvars, cvars, svars>>

\* arena_reset
ArenaReset ==
    /\ arena_offset' = U64Of(0)
    /\ regions' = <<>>
    /\ UNCHANGED <<pvars, wvars, rvars, tvars, hvars, bvars, cvars, svars>>

ArenaNext ==
    \/ \E size \in ArenaSizes : Len(regions) < MaxAllocs /\ ArenaAlloc(size)
    \/ ArenaReset

ArenaInit == PInit /\ WInit /\ RIdle /\ TIdle /\ HIdle /\ BIdle /\ AInit /\ CIdle /\ SIdle

ArenaSpec == ArenaInit /\ [][ArenaNext]_vars

(***************************************************************************)
(* Page offsets on a large pages.dat.  page_id is a uint32_t, PAGE_SIZE an *)
(* int: the product is taken in unsigned 32 bits and then widened to the   *)
(* 64 bits of off_t, held here as four 16-bit limbs, highest first.        *)
(***************************************************************************)
MaxSeeks == 2
\* file_size / PAGE_SIZE of the files page_manager_create opens
LargeFiles == { 524289, 1048577 }
SeekIds == { 0, 1, 8, 524287, 524288, 524289, 1048576 }

\* off_t offset = page_id * PAGE_SIZE
page_offset(page_id) ==
    <<0, 0, (page_id \div 8) % U16, (page_id % 8) * PAGE_SIZE>>

\* page_manager_read up to its lseek
SeekRead(page_id) ==
    /\ ~(page_id >= seeks.num_pages)
    /\ seeks' = [seeks EXCEPT !.at = @ \cup
                   {[op |-> "read", page_id |-> page_id,
                     offset |-> page_offset(page_id)]}]
    /\ UNCHANGED <<pvars, wvars, rvars, tvars, hvars, bvars, avars, cvars>>

\* page_manager_write up to its lseek, of a page that was read from the file
SeekWrite(page_id) ==
    /\ page_id < seeks.num_pages
    /\ seeks' = [seeks EXCEPT !.at = @ \cup
                   {[op |-> "write", page_id |-> page_id,
                     offset |-> page_offset(page_id)]}]
    /\ UNCHANGED <<pvars, wvars, rvars, tvars, hvars, bvars, avars, cvars>>

OffsetNext ==
    \/ \E p \in SeekIds : Cardinality(seeks.at) < MaxSeeks /\ SeekRead(p)
    \/ \E p \in SeekIds : Cardinality(seeks.at) < MaxSeeks /\ SeekWrite(p)

OffsetInit ==
    /\ PInit /\ WInit /\ RIdle /\ TIdle /\ HIdle /\ BIdle /\ AIdle /\ CIdle
    /\ seeks \in { [NoSeeks EXCEPT !.num_pages = n] : n \in LargeFiles }

OffsetSpec == OffsetInit /\ [][OffsetNext]_vars

\* storage_init on an empty data directory
Init == PInit /\ WInit /\ RIdle /\ TIdle /\ HIdle /\ BIdle /\ AIdle /\ CIdle /\ SIdle

ReplayInit == PInit /\ WInit /\ RInit /\ TIdle /\ HIdle /\ BIdle /\ AIdle /\ CIdle /\ SIdle

ReplaySpec == ReplayInit /\ [][ReplayNext]_vars

WalSpec == Init /\ [][WalNext]_vars

(***************************************************************************)
(* The log after a crash: wal.log ends in the first bytes of a record, the *)
(* log is opened on it, and one thread appends and flushes.  Payloads go   *)
(* up to the 65535 bytes storage_insert_row can ask for.                   *)
(***************************************************************************)
MaxTailAppends == 2
MaxTailFlushes == 1
MaxTailBoots == 1
TailInputs == { in \in LogInputs : in.cut > 0 /\ Len(in.es) <= 1 }
TailEntries == { [type |-> WAL_INSERT, length |-> 0,     val |-> 0],
                 [type |-> WAL_COMMIT, length |-> 2,     val |-> 98],
                 [type |-> WAL_INSERT, length |-> 65508, val |-> 97],
                 [type |-> WAL_INSERT, length |-> 65535, val |-> 97] }
TailFlushOutcomes == { [w |-> WriteAll, s |-> TRUE], [w |-> WriteError, s |-> TRUE] }

\* whether the two memcpy calls of storage_wal_append at buffer + pos stay
\* inside the WAL_BUFFER_SIZE bytes of the buffer
append_in_buffer(pos, e) ==
    /\ pos + SizeofWALEntry <= WAL_BUFFER_SIZE
    /\ pos + OffWalData + e.length <= WAL_BUFFER_SIZE

\* where storage_wal_append copies the record: buffer_pos, or 0 behind the
\* flush it makes when the record does not fit
append_pos(e, out) ==
    IF buffer_pos + wal_entry_size(e) > WAL_BUFFER_SIZE
    THEN wal_flush_internal(wal_file, synced, buffer, buffer_pos, out).pos
    ELSE buffer_pos

\* storage_wal_append behind the lock.  A memcpy past the end of the buffer
\* is undefined: the process is killed with the bytes its flush wrote in the
\* file (ub = "segv") and the log is opened again, or it goes on with the
\* bytes inside the buffer written (ub = "silent")
TailAppendBody(t, e, out, ub) ==
    LET full == buffer_pos + wal_entry_size(e) > WAL_BUFFER_SIZE
        fl   == wal_flush_internal(wal_file, synced, buffer, buffer_pos, out)
    IN
    IF ub = "segv"
    THEN /\ pc[t] = "append"
         /\ CanMeet(IF full THEN buffer_pos ELSE 0, out)
         /\ full => fl.res = STORAGE_OK
         /\ ~append_in_buffer(append_pos(e, out), e)
         /\ wal_file' = IF full THEN fl.file ELSE wal_file
         /\ synced' = RLen(wal_file')
         /\ \E j \in Junk : buffer' = RFill(WAL_BUFFER_SIZE, j)
         /\ buffer_pos' = 0
         /\ next_lsn' = RLen(wal_file')
         /\ lock' = NoThread
         /\ pc' = [u \in Threads |-> "idle"]
         /\ lsn' = [u \in Threads |-> 0]
         /\ appended' = <<>>
         /\ wboots' = wboots + 1
         /\ nappends' = nappends + 1
         /\ UNCHANGED <<acked, nflushes>>
         /\ UNCHANGED <<pvars, xvars>>
    ELSE WalAppendBody(t, e, out)

\* the calls made once buffer_pos is past the end of the buffer read behind
\* the buffer and are left out
TailNext ==
    \/ /\ nappends < MaxTailAppends
       /\ buffer_pos <= WAL_BUFFER_SIZE
       /\ WalAppendLock(1)
    \/ \E e \in TailEntries, out \in TailFlushOutcomes, ub \in {"silent", "segv"} :
          /\ ub = "segv" => wboots < MaxTailBoots
          /\ TailAppendBody(1, e, out, ub)
    \/ \E out \in TailFlushOutcomes :
          /\ nflushes < MaxTailFlushes
          /\ buffer_pos <= WAL_BUFFER_SIZE
          /\ WalFlush(1, out)

\* wal_create on the file of the input in
TailOpened(in) ==
    /\ wal_file = LogBytes(in)
    /\ synced = RLen(LogBytes(in))
    /\ \E j \in Junk : WalOpened(LogBytes(in), j)
    /\ acked = {}
    /\ nappends = 0
    /\ nflushes = 0
    /\ wboots = 0

TailInit ==
    /\ PInit /\ RIdle /\ TIdle /\ HIdle /\ BIdle /\ AIdle /\ CIdle /\ SIdle
    /\ \E in \in TailInputs : TailOpened(in)

TailSpec == TailInit /\ [][TailNext]_vars

\* the callers release only pages they hold
Holds(a) == \A i \in FrameOf(a) : bal[entries[i].page_id] > 0

\* one page file from creation on: the page manager and the slotted page, a
\* write and a read through the pool, and a restart
PNext ==
    \/ \E o \in WriteOutcomes : num_pages < MaxPages /\ PmAlloc(o)
    \/ \E a \in Addr, t \in Tuples, ub \in {"silent", "segv"} :
          /\ nops < MaxPageOps
          /\ ub = "segv" => boots < MaxBoots
          /\ num_slots(heap[a]) < MaxSlots
          /\ AddTuple(a, t, ub)
    \/ \E a \in Addr, k \in 0..(MaxSlots - 1) :
          nops < MaxPageOps /\ DeleteTuple(a, k)
    \/ \E p \in 0..MaxPages, w \in WriteOutcomes, r \in ReadOutcomes :
          access_counter < MaxGets /\ GetPage(p, w, r)
    \/ \E a \in Addr, w \in WriteOutcomes :
          nops < MaxPageOps /\ FlushPage(a, w)
    \/ boots < MaxBoots /\ Reopen

Spec == Init /\ [][PNext]_vars

\* pages.dat as PoolPages calls of page_manager_alloc and a close leave it
RECURSIVE AllocatedFile(_)
AllocatedFile(n) ==
    IF n = 0 THEN <<>>
    ELSE FileWrite(AllocatedFile(n - 1), PageOffset(n - 1),
                   RTake(NewPage(n - 1), PAGE_SIZE))

PoolInit ==
    /\ file = AllocatedFile(PoolPages)
    /\ Opened(AllocatedFile(PoolPages))
    /\ onDisk = [p \in PageIds |-> IF p < PoolPages THEN NewHist ELSE NoHist]
    /\ boots = 0
    /\ nops = 0
    /\ last = NoLast
    /\ WInit /\ RIdle /\ TIdle /\ HIdle /\ BIdle /\ AIdle /\ CIdle /\ SIdle

\* the buffer pool over a file of PoolPages pages, with its callers
PoolNext ==
    \/ \E p \in PageIds, w \in WriteOutcomes, r \in ReadOutcomes :
          access_counter < MaxAccess /\ GetPage(p, w, r)
    \/ \E a \in Addr : Holds(a) /\ UnpinPage(a)
    \/ \E a \in Addr, w \in WriteOutcomes :
          nops < MaxPoolOps /\ FlushPage(a, w)
    \/ \E ws \in [Frames -> WriteOutcomes] :
          nops < MaxPoolOps /\ FlushAll(ws)
    \/ \E a \in Addr : nops < MaxPoolOps /\ PutPage(a)
    \/ \E a \in Addr, t \in PoolTuples :
          nops < MaxPoolOps /\ AddTuple(a, t, "silent")
    \/ \E a \in Addr : nops < MaxPoolOps /\ DeleteTuple(a, 0)

PoolSpec == PoolInit /\ [][PoolNext]_vars

(***************************************************************************)
(* The storage handle as a whole: storage_checkpoint and storage_shutdown  *)
(* run by one caller (thread 1 in the log), step by step, next to callers  *)
(* of the pool and a second thread in the log.                             *)
(***************************************************************************)
MaxCalls == 1
MaxStoreGets == 2
MaxStoreOps == 2
MaxStoreAppends == 1
MaxStoreFlushes == 1
Caller == 1
Other == 2
StoreEntries == { [type |-> WAL_INSERT, length |-> 0, val |-> 0] }

\* the entry storage_checkpoint builds
checkpoint_entry == [type |-> WAL_CHECKPOINT, length |-> 0, val |-> 0, txn |-> 0]

\* the frames buffer_pool_flush_all finds valid and dirty
DirtyFrames == { i \in Frames : entries[i].valid /\ DirtyOf(heap[entries[i].page]) }

\* the frame at which the loop of buffer_pool_flush_all returns, Capacity
\* when it runs to the end
RECURSIVE flush_all_stop(_, _)
flush_all_stop(i, wouts) ==
    IF i >= Capacity THEN Capacity
    ELSE IF i \in DirtyFrames
            /\ page_manager_write(file, heap[entries[i].page], wouts[i]).res
                 # STORAGE_OK
         THEN i
         ELSE flush_all_stop(i + 1, wouts)

PagesOf(fs) == { entries[i].page_id : i \in fs }

\* the call record after buffer_pool_flush_all under outcomes wouts
Flushed(op, next, wouts) ==
    LET stop == flush_all_stop(0, wouts) IN
    [op |-> op, pc |-> next, n |-> call.n + 1,
     ret |-> flush_all_from(0, file, heap, onDisk, wouts).res,
     dirty |-> PagesOf(DirtyFrames),
     failed |-> PagesOf(DirtyFrames \cap {stop}),
     skipped |-> PagesOf({ i \in DirtyFrames : i > stop })]

Quiet == lock = NoThread /\ \A t \in Threads : pc[t] = "idle"

checkpoint_heedless(result) == TRUE

\* storage_checkpoint, line 99: go on to the record
checkpoint_proceeds(result) == result = STORAGE_OK

\* storage_checkpoint, lines 98-101
CheckpointFlushAll(wouts) ==
    LET c == Flushed("checkpoint", "append", wouts) IN
    /\ call.pc = "idle"
    /\ pc[Caller] = "idle"
    /\ buffer_pool_flush_all(wouts)
    /\ call' = IF checkpoint_proceeds(c.ret) THEN c ELSE [c EXCEPT !.pc = "idle"]
    /\ UNCHANGED <<wvars, rvars, tvars, hvars, bvars, avars, flushing, svars>>

\* storage_checkpoint, line 109, entering storage_wal_append
CheckpointAppendLock ==
    /\ call.op = "checkpoint" /\ call.pc = "append"
    /\ storage_wal_append_lock(Caller)
    /\ call' = [call EXCEPT !.pc = "store"]
    /\ UNCHANGED <<pvars, rvars, tvars, hvars, bvars, avars, flushing, svars>>

\* storage_checkpoint, line 109, the rest of storage_wal_append; what it
\* returns is dropped
CheckpointAppendBody(out) ==
    /\ call.op = "checkpoint" /\ call.pc = "store"
    /\ storage_wal_append_body(Caller, checkpoint_entry, out)
    /\ call' = [call EXCEPT !.pc = "flush"]
    /\ UNCHANGED <<pvars, rvars, tvars, hvars, bvars, avars, flushing, svars>>

\* storage_checkpoint, line 110
CheckpointWalFlush(out) ==
    /\ call.op = "checkpoint" /\ call.pc = "flush"
    /\ storage_wal_flush(Caller, out)
    /\ call' = [call EXCEPT !.pc = "idle",
                  !.ret = wal_flush_internal(wal_file, synced, buffer,
                                             buffer_pos, out).res]
    /\ UNCHANGED <<pvars, rvars, tvars, hvars, bvars, avars, flushing, svars>>

\* storage_shutdown, line 70: what buffer_pool_flush_all returns is dropped
ShutdownFlushAll(wouts) ==
    /\ call.pc = "idle"
    /\ Quiet
    /\ buffer_pool_flush_all(wouts)
    /\ call' = Flushed("shutdown", "walflush", wouts)
    /\ UNCHANGED <<wvars, rvars, tvars, hvars, bvars, avars, flushing, svars>>

\* storage_shutdown, line 71: what storage_wal_flush returns is dropped
ShutdownWalFlush(out) ==
    /\ call.op = "shutdown" /\ call.pc = "walflush"
    /\ storage_wal_flush(Caller, out)
    /\ call' = [call EXCEPT !.pc = "destroy"]
    /\ UNCHANGED <<pvars, rvars, tvars, hvars, bvars, avars, flushing, svars>>

\* storage_shutdown, lines 73-77: wal_destroy flushes once more and frees
\* the buffer, buffer_pool_destroy frees every frame as it is
ShutdownDestroy(out) ==
    LET fl == wal_flush_internal(wal_file, synced, buffer, buffer_pos, out) IN
    /\ call.op = "shutdown" /\ call.pc = "destroy"
    /\ CanMeet(buffer_pos, out)
    /\ wal_file' = fl.file
    /\ synced' = fl.synced
    /\ buffer_pos' = fl.pos
    /\ buffer' = <<>>
    /\ appended' = IF fl.pos = 0 THEN Unbuffered(appended) ELSE appended
    /\ heap' = [a \in Addr |-> <<>>]
    /\ entries' = EmptyPool
    /\ num_entries' = 0
    /\ made' = [a \in Addr |-> NoHist]
    /\ bal' = [p \in PageIds |-> 0]
    /\ last' = [NoLast EXCEPT !.op = "shutdown"]
    /\ call' = [call EXCEPT !.pc = "down", !.ret = fl.res]
    /\ UNCHANGED <<file, num_pages, access_counter, onDisk, boots, nops>>
    /\ UNCHANGED <<next_lsn, lock, pc, lsn, acked, nappends, nflushes, wboots>>
    /\ UNCHANGED <<rvars, tvars, hvars, bvars, avars, flushing, svars>>

\* the handle is in use: storage_shutdown has not been called
Up == call.op # "shutdown"

StoreNext ==
    \/ \E p \in 0..(Capacity - 1) :
          Up /\ access_counter < MaxStoreGets /\ GetPage(p, "ok", "ok")
    \/ \E a \in Addr : Up /\ nops < MaxStoreOps /\ PutPage(a)
    \/ Up /\ nappends < MaxStoreAppends /\ WalAppendLock(Other)
    \/ \E e \in StoreEntries, out \in FlushOutcomes :
          Up /\ WalAppendBody(Other, e, out)
    \/ \E out \in FlushOutcomes :
          Up /\ nflushes < MaxStoreFlushes /\ WalFlush(Other, out)
    \/ \E wouts \in [Frames -> WriteOutcomes] :
          Up /\ call.n < MaxCalls /\ CheckpointFlushAll(wouts)
    \/ CheckpointAppendLock
    \/ \E out \in FlushOutcomes : CheckpointAppendBody(out)
    \/ \E out \in FlushOutcomes : CheckpointWalFlush(out)
    \/ \E wouts \in [Frames -> WriteOutcomes] :
          Up /\ call.n < MaxCalls + 1 /\ ShutdownFlushAll(wouts)
    \/ \E out \in FlushOutcomes : ShutdownWalFlush(out)
    \/ \E out \in FlushOutcomes : ShutdownDestroy(out)

StoreSpec == PoolInit /\ [][StoreNext]_vars


(***************************************************************************)
(* buffer_pool_flush_page taken store by store on one thread, with         *)
(* storage_put_page, which takes no mutex, on another.                     *)
(***************************************************************************)
MaxRaceGets == 2
MaxRaceOps == 2

\* buffer_pool_flush_page, lines 162-164, and page_manager_write up to the
\* fsync: the mutex is taken and the bytes of the page go to the file
RaceFlushWrite(a, wout) ==
    LET wr == page_manager_write(file, heap[a], wout) IN
    /\ flushing.pc = "idle"
    /\ a \in Allocated
    /\ file' = wr.file
    /\ onDisk' = IF wout # "ioerr"
                 THEN [onDisk EXCEPT ![PageIdOf(heap[a])] = made[a]] ELSE onDisk
    /\ flushing' = [pc |-> IF wr.res = STORAGE_OK THEN "pm_clear" ELSE "fp_clear",
                    page |-> a, put |-> FALSE, ret |-> wr.res]
    /\ UNCHANGED <<num_pages, heap, entries, num_entries, access_counter, made,
                   bal, boots, nops, last>>
    /\ UNCHANGED <<wvars, rvars, tvars, hvars, bvars, avars, call, svars>>

\* page_manager_write, line 87: page->dirty = false
RaceFlushPmClear ==
    /\ flushing.pc = "pm_clear"
    /\ heap' = [heap EXCEPT ![flushing.page] = SetDirty(@, FALSE)]
    /\ flushing' = [flushing EXCEPT !.pc = "fp_clear"]
    /\ UNCHANGED <<file, num_pages, entries, num_entries, access_counter, made,
                   onDisk, bal, boots, nops, last>>
    /\ UNCHANGED <<wvars, rvars, tvars, hvars, bvars, avars, call, svars>>

\* buffer_pool_flush_page, lines 165-168: page->dirty = false, the mutex is
\* released
RaceFlushFpClear ==
    /\ flushing.pc = "fp_clear"
    /\ heap' = [heap EXCEPT ![flushing.page] = SetDirty(@, FALSE)]
    /\ flushing' = [flushing EXCEPT !.pc = "idle"]
    /\ last' = [NoLast EXCEPT !.op = "flush_page", !.ret = flushing.ret]
    /\ nops' = nops + 1
    /\ UNCHANGED <<file, num_pages, entries, num_entries, access_counter, made,
                   onDisk, bal, boots>>
    /\ UNCHANGED <<wvars, rvars, tvars, hvars, bvars, avars, call, svars>>

\* storage_put_page on the other thread, at any point of the flush
RacePut(a) ==
    /\ storage_put_page(a)
    /\ flushing' = IF flushing.pc # "idle" /\ flushing.page = a
                   THEN [flushing EXCEPT !.put = TRUE] ELSE flushing
    /\ UNCHANGED <<wvars, rvars, tvars, hvars, bvars, avars, call, svars>>

\* the pool mutex is free
PoolUnlocked == flushing.pc = "idle"

RaceNext ==
    \/ \E p \in 0..(PoolPages - 1) :
          PoolUnlocked /\ access_counter < MaxRaceGets /\ GetPage(p, "ok", "ok")
    \/ \E a \in Addr : PoolUnlocked /\ Holds(a) /\ UnpinPage(a)
    \/ \E a \in Addr : nops < MaxRaceOps /\ Holds(a) /\ RacePut(a)
    \/ \E a \in Addr, w \in WriteOutcomes :
          nops < MaxRaceOps /\ Holds(a) /\ RaceFlushWrite(a, w)
    \/ RaceFlushPmClear
    \/ RaceFlushFpClear

RaceSpec == PoolInit /\ [][RaceNext]_vars

(***************************************************************************)
(* Properties of the slotted page and the page manager, under Spec.        *)
(***************************************************************************)
\* the pages that came from page_manager_alloc and are not in the pool
FromAlloc == {a \in Allocated : made[a].known /\ FrameOf(a) = {}}
\* the slots of pg whose line pointer is not tombstoned
LiveSlots(pg) ==
    {k \in 0..(MaxSlots - 1) : k < num_slots(pg) /\ LpFlags(pg, k) % 2 = 0}

\* C1: on a page produced by alloc, after add_tuple and delete_tuple calls,
\* sizeof(header) <= lower <= upper <= P, and every live slot's span
\* [offset, offset + length) lies in [upper, P) and overlaps no other live
\* slot's span
C1_PageInvariant ==
    \A a \in FromAlloc :
       LET pg == heap[a] IN
       /\ SizeofPageHeader <= LowerOf(pg)
       /\ LowerOf(pg) <= UpperOf(pg)
       /\ UpperOf(pg) <= PAGE_SIZE
       /\ \A k \in LiveSlots(pg) :
             /\ UpperOf(pg) <= LpOffset(pg, k)
             /\ LpOffset(pg, k) + LpLength(pg, k) <= PAGE_SIZE
       /\ \A k, m \in LiveSlots(pg) :
             k # m => \/ LpOffset(pg, k) + LpLength(pg, k) <= LpOffset(pg, m)
                      \/ LpOffset(pg, m) + LpLength(pg, m) <= LpOffset(pg, k)

\* C2: the k-th successful add_tuple creates slot k-1; get_tuple returns
\* None exactly for a slot out of range or deleted, and for every other slot
\* the bytes passed to the add_tuple that created it, also on a page fetched
\* after a flush and a reopen
C2_GetTuple ==
    \A a \in Allocated :
       made[a].known =>
         LET pg == heap[a]
             h  == made[a].slots
         IN  /\ num_slots(pg) = Len(h)
             /\ \A k \in 0..MaxSlots :
                   LET r == page_get_tuple(pg, k) IN
                   IF k >= Len(h) \/ ~h[k + 1].live
                   THEN r = NoTuple
                   ELSE /\ r # NoTuple
                        /\ RSub(pg, r, h[k + 1].size)
                             = RFill(h[k + 1].size, h[k + 1].val)

\* C3: a page read through the page manager has the bytes that were written
\* for it through the page manager: the 24 bytes of header and the P - 24
\* bytes behind it
C3_RoundTrip ==
    (last.op = "get" /\ last.rio = "ok" /\ last.ret # NULL) =>
       RTake(heap[last.ret], PAGE_SIZE) = PageImage(file, last.arg)

(***************************************************************************)
(* Properties of the buffer pool, under PoolSpec.                          *)
(***************************************************************************)
Pinned(i) == entries[i].valid /\ PinCountOf(heap[entries[i].page]) > 0
AllPinned == num_entries >= Capacity /\ \A i \in Frames : Pinned(i)

\* C4: at most one valid frame holds any page_id
C4_OneFramePerPage ==
    \A i, j \in Frames :
       (entries[i].valid /\ entries[j].valid
          /\ entries[i].page_id = entries[j].page_id) => i = j

\* a get has just replaced a page in a full pool
C4_Witness ==
    /\ last.op = "get" /\ last.victim >= 0 /\ last.ret # NULL
    /\ \A i \in Frames : entries[i].valid

\* C5: a page a successful get returned has pin_count >= 1, and while the
\* successful gets of a page outnumber the unpins of it no get chooses its
\* frame as the victim
C5_HeldNeverVictim ==
    /\ (last.op = "get" /\ last.ret # NULL) => PinCountOf(heap[last.ret]) >= 1
    /\ ~(last.op = "get" /\ last.victim >= 0 /\ last.vheld)

\* C6: a get that evicts a dirty page has written it with STORAGE_OK
C6_DirtyVictimSaved ==
    (last.op = "get" /\ last.victim >= 0 /\ last.vdirty) => last.vsaved

\* C7: with every frame valid and pinned a get of a page not in the pool
\* returns NULL and leaves the pool as it is; with exactly one frame at
\* pin_count 0, a get of a page of the file that is not in the pool and
\* whose read succeeds returns the page installed in that frame and leaves
\* the other frames alone
C7_GetStep ==
    LET p == last'.arg IN
    (last'.op = "get" /\ buffer_pool_find_slot(entries, p) < 0) =>
       /\ AllPinned =>
             /\ last'.ret = NULL
             /\ UNCHANGED <<entries, num_entries, heap, file>>
       /\ \A f \in Frames :
             ( /\ num_entries >= Capacity
               /\ \A i \in Frames : Pinned(i) <=> i # f
               /\ entries[f].valid
               /\ p < num_pages
               /\ last'.rio = "ok" ) =>
                 /\ last'.ret # NULL
                 /\ entries'[f] = [page |-> last'.ret, page_id |-> p,
                                   last_access |-> access_counter,
                                   valid |-> TRUE]
                 /\ PinCountOf(heap'[last'.ret]) = 1
                 /\ \A i \in Frames \ {f} : entries'[i] = entries[i]
C7_Saturation == [][C7_GetStep]_vars

\* a get has installed a page in the one frame that was not pinned
C7_Witness ==
    /\ last.op = "get" /\ last.victim >= 0 /\ last.ret # NULL
    /\ entries[last.victim].page = last.ret
    /\ \A i \in Frames : Pinned(i)
    /\ access_counter > Capacity

(***************************************************************************)
(* Properties of the write-ahead log, under WalSpec.                       *)
(***************************************************************************)
\* C8: the LSNs of the records appended since the log was opened increase
\* strictly in the order the appends held the mutex, and the records still
\* in the buffer lie one behind the other from offset 0 in that order, each
\* with its LSN in its lsn field
C8_AppendOrder ==
    /\ \A i, j \in DOMAIN appended :
          i < j => appended[i].lsn < appended[j].lsn
    /\ \A i \in DOMAIN appended :
          appended[i].inbuf =>
            /\ U64At(buffer, appended[i].pos) = U64Of(appended[i].lsn)
            /\ appended[i].pos + SizeofWALEntry + appended[i].length <= buffer_pos
            /\ appended[i].pos =
                 IF i > 1 /\ appended[i - 1].inbuf
                 THEN appended[i - 1].pos + SizeofWALEntry + appended[i - 1].length
                 ELSE 0

\* two records lie in the buffer while a third append holds the mutex
C8_Witness ==
    /\ Len(appended) >= 2
    /\ appended[Len(appended)].inbuf
    /\ appended[Len(appended) - 1].inbuf
    /\ lock # NoThread

\* C9: every record a scan of wal.log finds starts at the offset equal to
\* its lsn field, and no LSN is found twice
C9_LogLayout ==
    LET v == storage_wal_replay(wal_file) IN
    /\ \A i \in DOMAIN v : v[i].lsn = U64Of(v[i].off)
    /\ \A i, j \in DOMAIN v : i # j => v[i].lsn # v[j].lsn

\* C10: every record appended before a flush that returned STORAGE_OK is
\* found by replay with its LSN, type, length and payload
C10_FlushDurable ==
    LET v == storage_wal_replay(wal_file) IN
    \A r \in acked :
       \E i \in DOMAIN v :
          /\ v[i].lsn = U64Of(r.lsn)
          /\ v[i].type = r.type
          /\ v[i].length = r.length
          /\ RSub(wal_file, v[i].off + OffWalData, r.length)
               = RFill(r.length, r.val)



\* the complete records of the given log, as replay has to see them
RECURSIVE GivenFrom(_, _, _)
GivenFrom(es, i, at) ==
    IF i > Len(es) THEN <<>>
    ELSE <<[off |-> at, lsn |-> U64Of(at), type |-> es[i].type,
            length |-> es[i].length, val |-> es[i].val]>>
         \o GivenFrom(es, i + 1, at + wal_entry_size(es[i]))

\* C11: replay of a log of N complete records followed by a proper prefix
\* of one more record visits exactly the N records in order, returns Ok,
\* and never reads a header field at bytes beyond the end of the file
C11_ReplayPrefix ==
    (rres.done /\ rres.ret # STORAGE_IO_ERROR) =>
        /\ rres.ret = STORAGE_OK
        /\ rres.visited = GivenFrom(rlog.es, 1, 0)
        /\ ~replay_overread(LogBytes(rlog))

\* the record types replay has a case for
KnownTypes == {WAL_INSERT, WAL_UPDATE, WAL_DELETE, WAL_COMMIT, WAL_ABORT,
               WAL_CHECKPOINT}

\* C12: replay stops at a record whose type is none of the six record
\* types: no record behind it is visited
C12_UnknownTypeStops ==
    rres.done =>
        \A i \in 1..Len(rres.visited), j \in 1..Len(rres.visited) :
            i < j => rres.visited[i].type \in KnownTypes


\* C13: every record occupies 24 + length bytes, so the LSN of an append is
\* the LSN of the append before it plus 24 plus that record's length (an
\* append of a 2-byte payload at LSN 0 is followed by LSN 26)
C13_RecordSize ==
    \A i \in DOMAIN appended :
        i > 1 => appended[i].lsn = appended[i - 1].lsn + 24 + appended[i - 1].length


(***************************************************************************)
(* Properties of storage_checkpoint and storage_shutdown, under StoreSpec. *)
(***************************************************************************)
\* the Checkpoint records appended since the log was opened
CheckpointsAppended ==
    Cardinality({ i \in DOMAIN appended : appended[i].type = WAL_CHECKPOINT })

C14_Step ==
    CheckpointsAppended' > CheckpointsAppended =>
        /\ call.op = "checkpoint"
        /\ call.failed = {} /\ call.skipped = {}

\* C14: a Checkpoint record is appended to the log, and so can become
\* durable, only by a checkpoint whose buffer_pool_flush_all has written
\* every page that was dirty when it started: none of them had its write
\* fail and none was left out
C14_CheckpointOrder == [][C14_Step]_vars

\* a checkpoint that found dirty pages has returned STORAGE_OK and its
\* record is in the synced part of wal.log
C14_Witness ==
    /\ call.op = "checkpoint" /\ call.pc = "idle" /\ call.ret = STORAGE_OK
    /\ call.dirty # {}
    /\ LET v == storage_wal_replay(RTake(wal_file, synced)) IN
       \E i \in DOMAIN v : v[i].type = WAL_CHECKPOINT

\* C20: when shutdown has destroyed the components, every frame that was
\* dirty has had its page written to pages.dat, the frames behind a frame
\* whose write failed included, and the log buffer is empty unless the last
\* flush returned an error
C20_ShutdownFlushes ==
    (call.op = "shutdown" /\ call.pc = "down") =>
        /\ call.skipped = {}
        /\ call.ret = STORAGE_OK => buffer_pos = 0


(***************************************************************************)
(* Properties of the B-tree, under BtreeSpec.                              *)
(***************************************************************************)
\* the numbers of the keys inserted so far
Inserted == { KeyAt(binserted.order, n) : n \in 1..binserted.n }

\* C15: after inserts of pairwise distinct keys, search finds every inserted
\* key with the value inserted with it, and finds no key never inserted
C15_SearchFinds ==
    \A k \in 0..KeySpace :
        storage_btree_search(btree, KeyBytes(k)) =
            IF k \in Inserted THEN [found |-> TRUE, value |-> ValueOf(k)]
            ELSE NotFound

\* C16: every node other than the root holds at least ceil(O/2) - 1 and at
\* most O - 1 keys
C16_NodeFill ==
    \A i \in DOMAIN btree.nodes :
        i # btree.root =>
            /\ Len(btree.nodes[i].keys) >= (BTREE_ORDER + 1) \div 2 - 1
            /\ Len(btree.nodes[i].keys) <= BTREE_ORDER - 1


(***************************************************************************)
(* Properties of the hash index, under HashSpec.                           *)
(***************************************************************************)
\* C17: every chain holds at most one entry per key, and search of a key
\* returns the value of its last insert when no delete of the key followed
\* it, and nothing otherwise
C17_HashUpsert ==
    /\ \A b \in DOMAIN buckets : \A i, j \in DOMAIN buckets[b] :
          buckets[b][i][1] = buckets[b][j][1] => i = j
    /\ \A k \in HashKeys :
          storage_hash_search(buckets, k) =
              IF hput.val[k] = Absent THEN NotFound
              ELSE [found |-> TRUE, value |-> hput.val[k]]

\* a key inserted a second time with another value lies in a chain next to
\* another key
C17_Witness ==
    \E k \in hput.over :
        /\ hput.val[k] # Absent
        /\ Len(buckets[hash(k, Len(buckets)) + 1]) >= 2


(***************************************************************************)
(* Properties of the bloom filter, under BloomSpec.                        *)
(***************************************************************************)
C18_Step ==
    /\ \A k \in bkeys' : storage_bloom_might_contain(bits', k)
    /\ \A i \in 0..(bits.num_bits - 1) : get_bit(bits, i) => get_bit(bits', i)
    /\ \A k \in BloomKeys :
          storage_bloom_might_contain(bits, k) => storage_bloom_might_contain(bits', k)

\* C18: after every insert might_contain is true for every key inserted so
\* far; no bit that was set is clear afterwards, and no key reported as
\* possibly present before is reported absent afterwards
C18_BloomSound == [][C18_Step]_vars

\* several keys are in the filter, and a key never inserted is reported as
\* possibly present
C18_Witness ==
    /\ Cardinality(bkeys) >= 2
    /\ \A k \in bkeys : storage_bloom_might_contain(bits, k)
    /\ \E k \in BloomKeys \ bkeys : storage_bloom_might_contain(bits, k)


(***************************************************************************)
(* Properties of the arena, under ArenaSpec.                               *)
(***************************************************************************)
\* offset plus size rounded up to a multiple of 8 is above capacity, in the
\* integers
Overruns(offset, size, capacity) ==
    LET up  == Sum64(size, U64Of(7))
        end == Sum64(offset, AndNot7(up.sum))
    IN  up.carry \/ end.carry \/ ~Le64(end.sum, capacity)

\* the region [at, at + size) ends at or below the offset bound
EndsBy(r, bound) ==
    LET end == Sum64(r.at, r.size) IN ~end.carry /\ Le64(end.sum, bound)

\* C19: alloc returns NULL whenever offset plus the size rounded up to a
\* multiple of 8 would exceed capacity, for every size; the regions handed
\* out since the last reset lie within the capacity and one behind the
\* other, and the first of them starts at base
C19_ArenaBounds ==
    /\ \A i \in DOMAIN regions :
          Overruns(regions[i].before, regions[i].size, U64Of(ARENA_CAPACITY))
              => regions[i].null
    /\ \A i \in DOMAIN regions :
          ~regions[i].null => EndsBy(regions[i], U64Of(ARENA_CAPACITY))
    /\ \A i, j \in DOMAIN regions :
          (i < j /\ ~regions[i].null /\ ~regions[j].null)
              => EndsBy(regions[i], regions[j].at)
    /\ (regions # <<>> /\ ~regions[1].null) => regions[1].at = U64Of(0)


(***************************************************************************)
(* Properties of the dirty flag under concurrent callers, under RaceSpec.  *)
(***************************************************************************)
\* C21: when a flush_page has finished, a page that storage_put_page marked
\* after the flush had written its bytes is still marked dirty
C21_DirtySurvivesFlush ==
    (last.op = "flush_page" /\ flushing.pc = "idle" /\ flushing.put
       /\ flushing.ret = STORAGE_OK) =>
        DirtyOf(heap[flushing.page])


(***************************************************************************)
(* More properties of the buffer pool: flush_page of a page alloc left     *)
(* dirty under Spec, a get whose read fails under PoolSpec.                *)
(***************************************************************************)
\* the frame is valid and its page has pin_count 0
Unpinned(i) == entries[i].valid /\ PinCountOf(heap[entries[i].page]) = 0

C22_Step ==
    last'.op = "get" =>
        /\ last'.victim >= 0 =>
              LET v == last'.victim IN
              /\ Unpinned(v)
              /\ \A i \in Frames :
                    Unpinned(i) =>
                       \/ entries[v].last_access < entries[i].last_access
                       \/ entries[v].last_access = entries[i].last_access /\ v <= i
        /\ last'.ret # NULL =>
              \E f \in Frames :
                 /\ entries'[f].valid /\ entries'[f].page = last'.ret
                 /\ \A i \in Frames :
                       entries[i].valid =>
                          entries'[f].last_access > entries[i].last_access
                 /\ access_counter' > entries'[f].last_access

\* C22: the frame a get evicts is valid, has pin_count 0 and has the lowest
\* last_access of the frames with pin_count 0, the lower index winning a
\* tie; the frame a hit or an install touches gets a last_access above that
\* of every frame before the get
C22_LruVictim == [][C22_Step]_vars

\* a get has evicted frame 1 although frame 0 was not pinned either
C22_Witness ==
    /\ last.op = "get" /\ last.victim = 1 /\ last.ret # NULL
    /\ Unpinned(0)
    /\ entries[0].last_access < entries[1].last_access


(***************************************************************************)
(* More properties of the page manager and the slotted page, under Spec.   *)
(***************************************************************************)
C23_Step ==
    last'.op = "alloc" =>
        /\ last'.arg = num_pages
        /\ last'.ret # NULL => num_pages' = num_pages + 1
        /\ last'.ret = NULL =>
              /\ num_pages' = num_pages
              /\ page_manager_read(file', num_pages', last'.arg, "ok") = <<>>

\* C23: alloc hands out the id num_pages has at the call and advances
\* num_pages only when it succeeds; after an alloc that failed num_pages is
\* as before and a read of that id returns NULL
C23_AllocIds == [][C23_Step]_vars


C24_Step ==
    \A a \in Allocated :
       (last'.op = "add" /\ heap'[a] # heap[a]) =>
          LET size == made'[a].slots[Len(made'[a].slots)].size IN
          /\ Len(made'[a].slots) = Len(made[a].slots) + 1
          /\ ~(page_get_free_space(heap[a]) < size + SizeofLinePointer)

\* C24: for every tuple size of 16 bits, add_tuple changes lower, upper, the
\* line pointers and the heap only when free_space is at least the size plus
\* sizeof(LinePointer), the sum taken without wrap-around; otherwise it
\* returns Error and the page is as before
C24_AddNeedsRoom == [][C24_Step]_vars


(***************************************************************************)
(* More properties of the buffer pool: flush_page of a page alloc left     *)
(* dirty under Spec, a get whose read fails under PoolSpec.                *)
(***************************************************************************)
C26_Step ==
    (last'.op = "flush_page" /\ last'.ret # STORAGE_OK) =>
       \A a \in Allocated : DirtyOf(heap[a]) => DirtyOf(heap'[a])

\* C26: dirty is cleared only when the write succeeded: a page that was
\* dirty when flush_page was called and whose flush_page did not return
\* STORAGE_OK is still dirty
C26_FailedFlushKeepsDirty == [][C26_Step]_vars

C28_Step ==
    ( /\ last'.op = "get" /\ last'.ret = NULL
      /\ page_manager_read(file', num_pages, last'.arg, last'.rio) = <<>>
      /\ ~AllPinned ) =>
         /\ UNCHANGED <<entries, num_entries>>
         /\ \A i \in Frames : entries[i].valid =>
               heap'[entries[i].page] = heap[entries[i].page]

\* C28: a get that returns NULL because the read of the page failed (the
\* page_id is not below num_pages, or the read was short) leaves the pool as
\* it was: no page that was in the pool has been evicted
C28_FailedReadKeepsPool == [][C28_Step]_vars


(***************************************************************************)
(* Property of the page offsets, under OffsetSpec.                         *)
(***************************************************************************)
\* page_id * PAGE_SIZE in the integers
exact_offset(page_id) ==
    <<0, page_id \div 524288, (page_id \div 8) % U16, (page_id % 8) * PAGE_SIZE>>

\* C25: for every page_id below num_pages, read and write seek to exactly
\* page_id * PAGE_SIZE, with no wrap-around, and two different page ids
\* never address the same bytes of the file
C25_OffsetsExact ==
    /\ \A s \in seeks.at : s.offset = exact_offset(s.page_id)
    /\ \A s, t \in seeks.at : s.page_id # t.page_id => s.offset # t.offset


(***************************************************************************)
(* Properties of the log opened on a file with a partial record at its     *)
(* tail, and of the buffer, under TailSpec.                                *)
(***************************************************************************)
\* C27: after a crash that left the first bytes of a record at the tail of
\* wal.log, every record appended after the log was opened again and
\* covered by a flush that returned STORAGE_OK is visited by replay, at the
\* offset of its LSN, with its type and payload
C27_AppendBehindTail ==
    LET v == storage_wal_replay(wal_file) IN
    \A r \in acked :
       \E i \in DOMAIN v :
          /\ v[i].off = r.lsn
          /\ v[i].lsn = U64Of(r.lsn)
          /\ v[i].type = r.type
          /\ v[i].length = r.length
          /\ RSub(wal_file, v[i].off + OffWalData, r.length)
               = RFill(r.length, r.val)

\* C29: buffer_pos never exceeds the capacity of the buffer, and for every
\* payload length of 16 bits the record append copies lies entirely inside
\* the buffer
C29_BufferBounds ==
    /\ buffer_pos <= WAL_BUFFER_SIZE
    /\ \A i \in DOMAIN appended :
          appended[i].inbuf =>
             append_in_buffer(appended[i].pos,
                              [length |-> appended[i].length])

====
